---- MODULE Spec2Model ----
(***************************************************************************)
(* Model of amadeus-mcp: the resilient RPC client (blockchain/client.rs)   *)
(* and the transaction builder / finalizer (wasm/tx.rs).                   *)
(*                                                                         *)
(* Spec    : one client instance serving one request at a time: the read   *)
(*           queries that go through retry_request and the transaction     *)
(*           submission.                                                   *)
(* SpecTx  : one transaction through create_transaction_blob and           *)
(*           finalize_transaction, the request drawn from bounded sets.    *)
(***************************************************************************)
EXTENDS Integers, Sequences, FiniteSets, TLC

(***************************************************************************)
(* Program constants.                                                      *)
(***************************************************************************)
\* ExponentialBackoff::from_millis(100)
BackoffBaseMillis == 100
\* .take(3)
RetryTake == 3
\* BlockchainError::NetworkRetryExhausted { attempts: 3 }
ReportedAttempts == 3

(***************************************************************************)
(* Bounds of the model.                                                    *)
(***************************************************************************)
\* jitter draws a factor j/JitterDen, 0 <= j < JitterDen, for rand::random::<f64>() in [0,1)
JitterDen == 2

(***************************************************************************)
(* Bytes and text.  A byte is a number in 0..255; a byte string (Vec<u8>,  *)
(* &[u8]) is a sequence of bytes; a Rust String is the sequence of its     *)
(* UTF-8 bytes, so that as_bytes() reads the representation.               *)
(***************************************************************************)
Byte == 0..255

\* Result<T, E> of a conversion: Ok(v), or Err with a v of T's shape
Decoded(v) == [ok |-> TRUE, v |-> v]
DecodeErr(v) == [ok |-> FALSE, v |-> v]

\* `let name = v;` followed by F: the value is computed once
Let(v, F(_)) == F(v)

Reverse(s) == [i \in 1..Len(s) |-> s[Len(s) + 1 - i]]

\* Op folded over lo..hi from acc, by halves (the order is lo, lo+1, ..., hi)
RECURSIVE FoldRange(_, _, _, _)
FoldRange(Op(_, _), acc, lo, hi) ==
    IF lo > hi THEN acc
    ELSE IF lo = hi THEN Op(acc, lo)
    ELSE LET left == FoldRange(Op, acc, lo, (lo + hi) \div 2)
         IN  IF Len(<<left>>) = 1 THEN FoldRange(Op, left, (lo + hi) \div 2 + 1, hi) ELSE left

\* the concatenation of a sequence of byte strings
Concat(ss) ==
    LET step(acc, i) == acc \o ss[i]
    IN  FoldRange(step, <<>>, 1, Len(ss))

\* number of leading elements of s equal to x
LeadingCount(s, x) ==
    IF \A i \in 1..Len(s) : s[i] = x THEN Len(s)
    ELSE (CHOOSE i \in 1..Len(s) : s[i] # x /\ \A j \in 1..(i - 1) : s[j] = x) - 1

\* s without its leading zero elements
StripLeadingZeros(s) == SubSeq(s, LeadingCount(s, 0) + 1, Len(s))

\* the digits of the carry appended to the little-endian digits out
RECURSIVE Carry(_, _, _)
Carry(out, c, b) == IF c = 0 THEN out ELSE Carry(Append(out, c % b), c \div b, b)

\* num is a number in little-endian digits of base b: the digits of num * mult + add
MulAdd(num, mult, add, b) ==
    LET step(st, i) == [carry |-> (num[i] * mult + st.carry) \div b,
                        out |-> Append(st.out, (num[i] * mult + st.carry) % b)]
    IN  Let(FoldRange(step, [carry |-> add, out |-> <<>>], 1, Len(num)),
            LAMBDA st : Carry(st.out, st.carry, b))

\* digits (big-endian, base from) converted to little-endian digits of base to
ToBase(digits, from, to) ==
    LET step(acc, i) == MulAdd(acc, from, digits[i], to)
    IN  FoldRange(step, <<>>, 1, Len(digits))

\* big-endian digits of base b taken two at a time: the digits of base b * b
Pair(digits, b) ==
    [i \in 1..((Len(digits) + 1) \div 2) |->
        IF Len(digits) % 2 = 0 THEN digits[2 * i - 1] * b + digits[2 * i]
        ELSE IF i = 1 THEN digits[1]
        ELSE digits[2 * i - 2] * b + digits[2 * i - 1]]

\* little-endian digits of base b * b as big-endian digits of base b
Unpair(le, b) ==
    [i \in 1..(2 * Len(le)) |->
        IF i % 2 = 1 THEN le[Len(le) - (i \div 2)] \div b ELSE le[Len(le) + 1 - (i \div 2)] % b]

\* the number with big-endian digits of base from, as big-endian digits of
\* base to without leading zeros (the arithmetic runs on pairs of digits)
ConvertBase(digits, from, to) ==
    StripLeadingZeros(Unpair(ToBase(Pair(digits, from), from * from, to * to), to))

(***************************************************************************)
(* bs58 (Bitcoin alphabet).                                                *)
(***************************************************************************)
Base58Alphabet == <<49, 50, 51, 52, 53, 54, 55, 56, 57, 65, 66, 67, 68, 69, 70, 71, 72, 74, 75, 76, 77, 78, 80, 81, 82, 83, 84, 85, 86, 87, 88, 89, 90, 97, 98, 99, 100, 101, 102, 103, 104, 105, 106, 107, 109, 110, 111, 112, 113, 114, 115, 116, 117, 118, 119, 120, 121, 122>>

\* the value of a character, -1 for a character outside the alphabet
Base58Value == [c \in Byte |-> IF \E i \in 1..58 : Base58Alphabet[i] = c
                                THEN (CHOOSE i \in 1..58 : Base58Alphabet[i] = c) - 1
                                ELSE -1]

\* the characters of base-58 digits
Base58Chars(digits) == [i \in 1..Len(digits) |-> Base58Alphabet[digits[i] + 1]]

\* bs58::encode(bytes).into_string(): one '1' per leading zero byte, then the
\* base-58 digits of the number
Base58Encode(bytes) ==
    [i \in 1..LeadingCount(bytes, 0) |-> Base58Alphabet[1]]
        \o Base58Chars(ConvertBase(bytes, 256, 58))

\* bs58::decode(text).into_vec(): fails on a character outside the alphabet
Base58Decode(text) ==
    IF \E i \in 1..Len(text) : text[i] \notin Byte \/ Base58Value[text[i]] < 0
    THEN DecodeErr(<<>>)
    ELSE Decoded([i \in 1..LeadingCount(text, Base58Alphabet[1]) |-> 0]
                    \o ConvertBase([i \in 1..Len(text) |-> Base58Value[text[i]]], 58, 256))

(***************************************************************************)
(* hex                                                                     *)
(***************************************************************************)
HexDigits == <<48, 49, 50, 51, 52, 53, 54, 55, 56, 57, 97, 98, 99, 100, 101, 102>>

\* the value of a hex character (either case), -1 for any other character
HexValue == [c \in Byte |-> IF c >= 48 /\ c <= 57 THEN c - 48
                             ELSE IF c >= 97 /\ c <= 102 THEN c - 87
                             ELSE IF c >= 65 /\ c <= 70 THEN c - 55
                             ELSE -1]

\* hex::encode(bytes): two lower-case digits per byte
HexEncode(bytes) ==
    [i \in 1..(2 * Len(bytes)) |->
        IF i % 2 = 1 THEN HexDigits[(bytes[(i + 1) \div 2] \div 16) + 1]
        ELSE HexDigits[(bytes[i \div 2] % 16) + 1]]

\* hex::decode(text): fails on an odd length or a character that is no hex digit
HexDecode(text) ==
    IF Len(text) % 2 = 1 THEN DecodeErr(<<>>)
    ELSE IF \E i \in 1..Len(text) : HexValue[text[i]] < 0 THEN DecodeErr(<<>>)
    ELSE Decoded([i \in 1..(Len(text) \div 2) |->
                     HexValue[text[2 * i - 1]] * 16 + HexValue[text[2 * i]]])

\* str::trim_start_matches("0x"): removes the prefix as often as it matches
RECURSIVE TrimStartMatches0x(_)
TrimStartMatches0x(text) ==
    IF Len(text) >= 2 /\ text[1] = 48 /\ text[2] = 120
    THEN TrimStartMatches0x(SubSeq(text, 3, Len(text)))
    ELSE text

(***************************************************************************)
(* sha2::Sha256::digest.  The compression function is out of reach of the  *)
(* model checker; Sha256 stands for it as a deterministic function from    *)
(* byte strings to DigestLen bytes that tells apart the inputs that occur  *)
(* in the model (three running sums modulo distinct primes, written out    *)
(* and then stretched).  Nothing below relies on more than that.           *)
(***************************************************************************)
DigestLen == 32

Absorb(bytes, h0, mult, prime) ==
    LET step(h, i) == (h * mult + bytes[i] + 1) % prime
    IN  FoldRange(step, h0, 1, Len(bytes))

\* the digest of the three sums
Squeeze(h1, h2, h3) ==
    <<h1 \div 65536, (h1 \div 256) % 256, h1 % 256,
      h2 \div 65536, (h2 \div 256) % 256, h2 % 256,
      h3 \div 65536, (h3 \div 256) % 256, h3 % 256>>
        \o [i \in 1..(DigestLen - 9) |-> (h1 * (i + 9) + h2 * (i + 10) + h3 + i + 9) % 256]

Sha256(bytes) ==
    Squeeze(Absorb(bytes, Len(bytes) + 1, 257, 999983),
            Absorb(bytes, Len(bytes) + 7, 263, 1000003),
            Absorb(bytes, Len(bytes) + 13, 269, 999979))

(***************************************************************************)
(* Integers.  An i64 is its 8 bytes and an i128 its 16 bytes, big-endian   *)
(* two's complement; a magnitude is a big-endian byte string without       *)
(* leading zero bytes.                                                     *)
(***************************************************************************)
I64Len == 8
I128Len == 16

IsNegative(int) == int[1] >= 128

\* two's complement negation within the width of int
Negate(int) ==
    Reverse(SubSeq(MulAdd(Reverse([i \in 1..Len(int) |-> 255 - int[i]]), 1, 1, 256),
                   1, Len(int)))

\* an i64 widened as if it were unsigned
I64AsI128_mut(n) == [i \in 1..(I128Len - I64Len) |-> 0] \o n

\* `n as i128` for an i64 n: sign extension
I64AsI128(n) == [i \in 1..(I128Len - I64Len) |-> IF IsNegative(n) THEN 255 ELSE 0] \o n

\* i128::unsigned_abs, as a magnitude
Magnitude(int) == StripLeadingZeros(IF IsNegative(int) THEN Negate(int) ELSE int)

\* the i128 whose 16 bytes are padded, read as the magnitude of a number of
\* sign neg; ok is FALSE when the number does not fit
I128OfPadded(neg, padded) ==
    IF ~neg THEN (IF padded[1] >= 128 THEN DecodeErr(<<>>) ELSE Decoded(padded))
    ELSE IF padded[1] < 128 THEN Decoded(Negate(padded))
    ELSE IF padded = <<128>> \o [i \in 1..(I128Len - 1) |-> 0] THEN Decoded(padded)
    ELSE DecodeErr(<<>>)

\* the i128 of a sign and a magnitude; ok is FALSE when it does not fit
I128FromMagnitude(neg, mag) ==
    Let(StripLeadingZeros(mag),
        LAMBDA m : IF Len(m) > I128Len THEN DecodeErr(<<>>)
                   ELSE I128OfPadded(neg, [i \in 1..(I128Len - Len(m)) |-> 0] \o m))

\* a small natural number as a magnitude, and back
NatToMagnitude(n) ==
    IF n = 0 THEN <<>>
    ELSE IF n < 256 THEN <<n>>
    ELSE IF n < 65536 THEN <<n \div 256, n % 256>>
    ELSE <<n \div 65536, (n \div 256) % 256, n % 256>>
MagnitudeToNat(mag) ==
    IF Len(mag) = 0 THEN 0
    ELSE IF Len(mag) = 1 THEN mag[1]
    ELSE IF Len(mag) = 2 THEN mag[1] * 256 + mag[2]
    ELSE mag[1] * 65536 + mag[2] * 256 + mag[3]

\* the decimal digits of a magnitude, as text
Decimal(mag) ==
    IF mag = <<>> THEN <<48>>
    ELSE Let(Reverse(ToBase(mag, 256, 10)), LAMBDA digits : [i \in 1..Len(digits) |-> 48 + digits[i]])

\* i64::to_string(): the decimal digits, with a leading '-' for a negative number
I64ToString(n) == (IF IsNegative(n) THEN <<45>> ELSE <<>>) \o Decimal(Magnitude(n))

(***************************************************************************)
(* std::str::from_utf8: is the byte string well-formed UTF-8               *)
(***************************************************************************)
RECURSIVE IsUtf8From(_, _)
IsUtf8From(s, i) ==
    LET in(k, lo, hi) == k <= Len(s) /\ s[k] >= lo /\ s[k] <= hi
    IN  IF i > Len(s) THEN TRUE
        ELSE IF s[i] <= 127 THEN IsUtf8From(s, i + 1)
        ELSE IF s[i] >= 194 /\ s[i] <= 223 THEN in(i + 1, 128, 191) /\ IsUtf8From(s, i + 2)
        ELSE IF s[i] >= 224 /\ s[i] <= 239
        THEN /\ in(i + 1, IF s[i] = 224 THEN 160 ELSE 128, IF s[i] = 237 THEN 159 ELSE 191)
             /\ in(i + 2, 128, 191)
             /\ IsUtf8From(s, i + 3)
        ELSE IF s[i] >= 240 /\ s[i] <= 244
        THEN /\ in(i + 1, IF s[i] = 240 THEN 144 ELSE 128, IF s[i] = 244 THEN 143 ELSE 191)
             /\ in(i + 2, 128, 191)
             /\ in(i + 3, 128, 191)
             /\ IsUtf8From(s, i + 4)
        ELSE FALSE
IsUtf8(s) == IsUtf8From(s, 1)

(***************************************************************************)
(* vecpak: the terms of the wire format and their bytes.  A term is a tag  *)
(* byte followed by its content: 0 nil, 1 true, 2 false, 3 integer,        *)
(* 5 binary, 6 list, 7 map.  An integer is a head byte (sign bit and the   *)
(* number of magnitude bytes) followed by the magnitude; lengths and       *)
(* counts are integers of that form.                                       *)
(***************************************************************************)
TNil == [t |-> "nil", neg |-> FALSE, b |-> <<>>, items |-> <<>>]
TBool(v) == [t |-> IF v THEN "true" ELSE "false", neg |-> FALSE, b |-> <<>>, items |-> <<>>]
TInt(neg, mag) == [t |-> "int", neg |-> neg, b |-> mag, items |-> <<>>]
TBin(bytes) == [t |-> "bin", neg |-> FALSE, b |-> bytes, items |-> <<>>]
TList(items) == [t |-> "list", neg |-> FALSE, b |-> <<>>, items |-> items]
\* the items of a map are its <<key, value>> pairs
TMap(pairs) == [t |-> "map", neg |-> FALSE, b |-> <<>>, items |-> pairs]

EncodeVarint(neg, mag) ==
    IF mag = <<>> THEN <<0>>
    ELSE <<(IF neg THEN 128 ELSE 0) + Len(mag)>> \o mag

EncodeLen(n) == EncodeVarint(FALSE, NatToMagnitude(n))

\* the terms of a list are its items, those of a map its keys and values in turn
Flat(x) ==
    IF x.t = "map" THEN [i \in 1..(2 * Len(x.items)) |-> x.items[(i + 1) \div 2][2 - (i % 2)]]
    ELSE x.items

RECURSIVE EncodeTerm(_)
EncodeTerm(x) ==
    CASE x.t = "nil" -> <<0>>
      [] x.t = "true" -> <<1>>
      [] x.t = "false" -> <<2>>
      [] x.t = "int" -> <<3>> \o EncodeVarint(x.neg, x.b)
      [] x.t = "bin" -> <<5>> \o EncodeLen(Len(x.b)) \o x.b
      [] x.t \in {"list", "map"} ->
            <<IF x.t = "list" THEN 6 ELSE 7>>
                \o EncodeLen(Len(x.items))
                \o Concat([i \in 1..Len(Flat(x)) |-> EncodeTerm(Flat(x)[i])])

ParseFail == [ok |-> FALSE, term |-> TNil, next |-> 0]
ParseOk(term, next) == [ok |-> TRUE, term |-> term, next |-> next]

\* the integer at pos: its sign, its magnitude and the position after it
ParseVarint(bytes, pos) ==
    IF pos > Len(bytes) THEN [ok |-> FALSE, neg |-> FALSE, mag |-> <<>>, next |-> 0]
    ELSE IF pos + (bytes[pos] % 128) > Len(bytes) THEN [ok |-> FALSE, neg |-> FALSE, mag |-> <<>>, next |-> 0]
    ELSE [ok |-> TRUE, neg |-> bytes[pos] >= 128,
          mag |-> SubSeq(bytes, pos + 1, pos + (bytes[pos] % 128)),
          next |-> pos + (bytes[pos] % 128) + 1]

\* a length or count: a non-negative integer that the input can hold
ParseLen(v, most) ==
    IF ~v.ok \/ v.neg \/ Len(StripLeadingZeros(v.mag)) > 3 THEN [ok |-> FALSE, n |-> 0, next |-> 0]
    ELSE IF MagnitudeToNat(StripLeadingZeros(v.mag)) > most THEN [ok |-> FALSE, n |-> 0, next |-> 0]
    ELSE [ok |-> TRUE, n |-> MagnitudeToNat(StripLeadingZeros(v.mag)), next |-> v.next]

RECURSIVE ParseTerm(_, _)
RECURSIVE ParseTerms(_, _, _, _)

\* k terms one after the other from pos: [ok, terms, next]
ParseTerms(bytes, pos, k, acc) ==
    IF k = 0 THEN [ok |-> TRUE, terms |-> acc, next |-> pos]
    ELSE Let(ParseTerm(bytes, pos),
             LAMBDA one : IF ~one.ok THEN [ok |-> FALSE, terms |-> <<>>, next |-> 0]
                          ELSE ParseTerms(bytes, one.next, k - 1, Append(acc, one.term)))

\* the list or map of the terms r that follow its count
Collected(tag, r) ==
    IF ~r.ok THEN ParseFail
    ELSE IF tag = 6 THEN ParseOk(TList(r.terms), r.next)
    ELSE ParseOk(TMap([i \in 1..(Len(r.terms) \div 2) |-> <<r.terms[2 * i - 1], r.terms[2 * i]>>]), r.next)

\* the term whose tag is at pos and whose integer, length or count is v
TermOf(bytes, pos, v) ==
    CASE bytes[pos] = 3 ->
            IF v.ok THEN ParseOk(TInt(v.neg, v.mag), v.next) ELSE ParseFail
      [] bytes[pos] = 5 ->
            Let(ParseLen(v, Len(bytes)),
                LAMBDA l : IF l.ok /\ l.next + l.n - 1 <= Len(bytes)
                           THEN ParseOk(TBin(SubSeq(bytes, l.next, l.next + l.n - 1)), l.next + l.n)
                           ELSE ParseFail)
      [] bytes[pos] \in {6, 7} ->
            Let(ParseLen(v, Len(bytes)),
                LAMBDA l : IF l.ok
                           THEN Collected(bytes[pos],
                                          ParseTerms(bytes, l.next, (bytes[pos] - 5) * l.n, <<>>))
                           ELSE ParseFail)

ParseTerm(bytes, pos) ==
    IF pos > Len(bytes) THEN ParseFail
    ELSE CASE bytes[pos] = 0 -> ParseOk(TNil, pos + 1)
           [] bytes[pos] = 1 -> ParseOk(TBool(TRUE), pos + 1)
           [] bytes[pos] = 2 -> ParseOk(TBool(FALSE), pos + 1)
           [] bytes[pos] \in {3, 5, 6, 7} -> TermOf(bytes, pos, ParseVarint(bytes, pos + 1))
           [] OTHER -> ParseFail

\* the one term that the bytes are, if they are one
DecodeTerm(bytes) ==
    Let(ParseTerm(bytes, 1), LAMBDA r : IF r.ok /\ r.next = Len(bytes) + 1 THEN r ELSE ParseFail)

(***************************************************************************)
(* wasm/tx.rs: TxAction, Tx, TxU and their serde representation.           *)
(***************************************************************************)
\* str::as_bytes of the field names and literals of the program
Utf8(text) ==
    CASE text = "action" -> <<97, 99, 116, 105, 111, 110>>
      [] text = "nonce" -> <<110, 111, 110, 99, 101>>
      [] text = "signer" -> <<115, 105, 103, 110, 101, 114>>
      [] text = "args" -> <<97, 114, 103, 115>>
      [] text = "contract" -> <<99, 111, 110, 116, 114, 97, 99, 116>>
      [] text = "function" -> <<102, 117, 110, 99, 116, 105, 111, 110>>
      [] text = "op" -> <<111, 112>>
      [] text = "attached_symbol" -> <<97, 116, 116, 97, 99, 104, 101, 100, 95, 115, 121, 109, 98, 111, 108>>
      [] text = "attached_amount" -> <<97, 116, 116, 97, 99, 104, 101, 100, 95, 97, 109, 111, 117, 110, 116>>
      [] text = "hash" -> <<104, 97, 115, 104>>
      [] text = "signature" -> <<115, 105, 103, 110, 97, 116, 117, 114, 101>>
      [] text = "tx" -> <<116, 120>>
      [] text = "call" -> <<99, 97, 108, 108>>
      [] text = "Coin" -> <<67, 111, 105, 110>>
      [] text = "transfer" -> <<116, 114, 97, 110, 115, 102, 101, 114>>
      [] text = "AMA" -> <<65, 77, 65>>

None == [some |-> FALSE, v |-> <<>>]
Some(v) == [some |-> TRUE, v |-> v]

NoAction == [args |-> <<>>, contract |-> <<>>, function |-> <<>>, op |-> <<>>,
             attached_symbol |-> None, attached_amount |-> None]
NoTx == [action |-> NoAction, nonce |-> <<>>, signer |-> <<>>]
NoTxU == [hash |-> <<>>, signature |-> <<>>, tx |-> NoTx]

\* args_serde::serialize: every argument as a ByteBuf
SerializeArgs(args) == TList([i \in 1..Len(args) |-> TBin(args[i])])

\* a Vec<u8> without serde_bytes is a sequence of u8
SerializeVecU8(v) == TList([i \in 1..Len(v) |-> TInt(FALSE, NatToMagnitude(v[i]))])

\* #[derive(Serialize)] for TxAction: the fields in declaration order, an
\* attached field only when it is Some
SerializeTxAction(a) ==
    TMap(<< <<TBin(Utf8("args")), SerializeArgs(a.args)>>,
            <<TBin(Utf8("contract")), TBin(a.contract)>>,
            <<TBin(Utf8("function")), TBin(a.function)>>,
            <<TBin(Utf8("op")), TBin(a.op)>> >>
         \o (IF a.attached_symbol.some
             THEN << <<TBin(Utf8("attached_symbol")), SerializeVecU8(a.attached_symbol.v)>> >> ELSE <<>>)
         \o (IF a.attached_amount.some
             THEN << <<TBin(Utf8("attached_amount")), SerializeVecU8(a.attached_amount.v)>> >> ELSE <<>>))

\* serialize_i128 losing the sign
SerializeI128_mut(n) == TInt(FALSE, Magnitude(n))

\* serialize_i128
SerializeI128(n) == TInt(IsNegative(n), Magnitude(n))

\* #[derive(Serialize)] for Tx
SerializeTx(tx) ==
    TMap(<< <<TBin(Utf8("action")), SerializeTxAction(tx.action)>>,
            <<TBin(Utf8("nonce")), SerializeI128(tx.nonce)>>,
            <<TBin(Utf8("signer")), TBin(tx.signer)>> >>)

\* #[derive(Serialize)] for TxU
SerializeTxU(txu) ==
    TMap(<< <<TBin(Utf8("hash")), TBin(txu.hash)>>,
            <<TBin(Utf8("signature")), TBin(txu.signature)>>,
            <<TBin(Utf8("tx")), SerializeTx(txu.tx)>> >>)

\* vecpak::to_vec(&tx), vecpak::to_vec(&txu)
to_vec_Tx(tx) == EncodeTerm(SerializeTx(tx))
to_vec_TxU(txu) == EncodeTerm(SerializeTxU(txu))

\* the values a map term holds under a key
Field(m, key) ==
    Let(SelectSeq(m.items, LAMBDA p : p[1] = TBin(key)),
        LAMBDA hits : [i \in 1..Len(hits) |-> hits[i][2]])

\* a field that must be there once: its value as Deserialize reads it
Required(m, key, Deserialize(_), none) ==
    Let(Field(m, key),
        LAMBDA values : IF Len(values) = 1 THEN Deserialize(values[1]) ELSE DecodeErr(none))

\* args_serde::deserialize: a sequence of ByteBuf
DeserializeArgs(t) ==
    IF t.t = "list" /\ \A i \in 1..Len(t.items) : t.items[i].t = "bin"
    THEN Decoded([i \in 1..Len(t.items) |-> t.items[i].b])
    ELSE DecodeErr(<<>>)

\* String: a binary that is UTF-8
DeserializeString(t) ==
    IF t.t = "bin" /\ IsUtf8(t.b) THEN Decoded(t.b) ELSE DecodeErr(<<>>)

\* serde_bytes: a binary
DeserializeBytes(t) ==
    IF t.t = "bin" THEN Decoded(t.b) ELSE DecodeErr(<<>>)

\* Vec<u8>: a sequence of u8
DeserializeVecU8(t) ==
    IF /\ t.t = "list"
       /\ \A i \in 1..Len(t.items) :
             /\ t.items[i].t = "int"
             /\ ~t.items[i].neg
             /\ Len(StripLeadingZeros(t.items[i].b)) <= 1
    THEN Decoded(Some([i \in 1..Len(t.items) |-> MagnitudeToNat(StripLeadingZeros(t.items[i].b))]))
    ELSE DecodeErr(None)

\* Option<Vec<u8>>: a missing field and nil are None
DeserializeOptionVecU8(m, key) ==
    Let(Field(m, key),
        LAMBDA values : IF Len(values) = 0 THEN Decoded(None)
                        ELSE IF Len(values) > 1 THEN DecodeErr(None)
                        ELSE IF values[1].t = "nil" THEN Decoded(None)
                        ELSE DeserializeVecU8(values[1]))

\* i128: an integer that fits
DeserializeI128(t) ==
    IF t.t = "int"
    THEN Let(I128FromMagnitude(t.neg, t.b), LAMBDA n : IF n.ok THEN Decoded(n.v) ELSE DecodeErr(<<>>))
    ELSE DecodeErr(<<>>)

\* the struct of its fields' results f, when every one of them is read
AllFields(f, none) ==
    IF \A k \in DOMAIN f : f[k].ok THEN Decoded([k \in DOMAIN f |-> f[k].v]) ELSE DecodeErr(none)

\* #[derive(Deserialize)] for TxAction: the fields by name, each at most
\* once, in any order; args, contract, function and op are required
DeserializeTxAction(t) ==
    IF t.t # "map" THEN DecodeErr(NoAction)
    ELSE AllFields([args |-> Required(t, Utf8("args"), DeserializeArgs, <<>>),
                    contract |-> Required(t, Utf8("contract"), DeserializeString, <<>>),
                    function |-> Required(t, Utf8("function"), DeserializeString, <<>>),
                    op |-> Required(t, Utf8("op"), DeserializeString, <<>>),
                    attached_symbol |-> DeserializeOptionVecU8(t, Utf8("attached_symbol")),
                    attached_amount |-> DeserializeOptionVecU8(t, Utf8("attached_amount"))], NoAction)

\* #[derive(Deserialize)] for Tx
DeserializeTx(t) ==
    IF t.t # "map" THEN DecodeErr(NoTx)
    ELSE AllFields([action |-> Required(t, Utf8("action"), DeserializeTxAction, NoAction),
                    nonce |-> Required(t, Utf8("nonce"), DeserializeI128, <<>>),
                    signer |-> Required(t, Utf8("signer"), DeserializeBytes, <<>>)], NoTx)

\* #[derive(Deserialize)] for TxU
DeserializeTxU(t) ==
    IF t.t # "map" THEN DecodeErr(NoTxU)
    ELSE AllFields([hash |-> Required(t, Utf8("hash"), DeserializeBytes, <<>>),
                    signature |-> Required(t, Utf8("signature"), DeserializeBytes, <<>>),
                    tx |-> Required(t, Utf8("tx"), DeserializeTx, NoTx)], NoTxU)

\* vecpak::from_slice::<Tx>(bytes)
from_slice_Tx(bytes) ==
    Let(DecodeTerm(bytes), LAMBDA r : IF r.ok THEN DeserializeTx(r.term) ELSE DecodeErr(NoTx))

\* vecpak::from_slice::<TxU>(bytes), as the receiving node reads the packed wire object
from_slice_TxU(bytes) ==
    Let(DecodeTerm(bytes), LAMBDA r : IF r.ok THEN DeserializeTxU(r.term) ELSE DecodeErr(NoTxU))

(***************************************************************************)
(* wasm/tx.rs: build_unsigned and finalize_transaction.                    *)
(***************************************************************************)
\* SystemTime::now().duration_since(UNIX_EPOCH).unwrap().as_nanos() as i128,
\* at the clock reading c (the native build; on wasm32 it is Date::now() * 1_000_000)
SystemTimeNanos(c) == <<0, 0, 0, 0, 0, 0, 0, 0, 24, 180, 33, 160, 7, 91, 0, c>>

\* Ok(UnsignedTx { tx_blob, signing_hash })
UnsignedTx(tx_encoded) == [tx_blob |-> tx_encoded, signing_hash |-> Sha256(tx_encoded)]

\* nonce.map(|n| n as i128).unwrap_or_else(now)
NonceVal(nonce, now) == IF nonce.some THEN I64AsI128(nonce.v) ELSE SystemTimeNanos(now)

\* let tx = Tx { signer, nonce: nonce_val, action }
BuiltTx(signer_pk, contract, function, args, attached_symbol, attached_amount, nonce_val) ==
    [signer |-> signer_pk,
     nonce |-> nonce_val,
     action |-> [op |-> Utf8("call"), contract |-> contract, function |-> function, args |-> args,
                 attached_symbol |-> attached_symbol, attached_amount |-> attached_amount]]

\* build_unsigned reading the clock although a nonce is supplied
build_unsigned_mut(signer_pk, contract, function, args, attached_symbol, attached_amount, nonce, now) ==
    UnsignedTx(to_vec_Tx(BuiltTx(signer_pk, contract, function, args,
                                 attached_symbol, attached_amount, SystemTimeNanos(now))))

build_unsigned(signer_pk, contract, function, args, attached_symbol, attached_amount, nonce, now) ==
    UnsignedTx(to_vec_Tx(BuiltTx(signer_pk, contract, function, args,
                                 attached_symbol, attached_amount, NonceVal(nonce, now))))

FinalizeErr(msg) == [ok |-> FALSE, err |-> msg, packed |-> <<>>, hash |-> <<>>]

\* Ok(FinalizedTx { packed, hash }) of the TxU { hash, signature, tx }
FinalizedTx(hash, signature, tx) ==
    [ok |-> TRUE, err |-> "",
     packed |-> to_vec_TxU([hash |-> hash, signature |-> signature, tx |-> tx]),
     hash |-> hash]

\* finalize_transaction hashing the re-encoded Tx instead of the bytes it was given
finalize_transaction_mut(tx_blob_b58, signature_b58) ==
    Let(Base58Decode(tx_blob_b58), LAMBDA tx_encoded :
        IF ~tx_encoded.ok THEN FinalizeErr("invalid blob base58")
        ELSE Let(Base58Decode(signature_b58), LAMBDA signature :
            IF ~signature.ok THEN FinalizeErr("invalid signature base58")
            ELSE Let(from_slice_Tx(tx_encoded.v), LAMBDA tx :
                IF ~tx.ok THEN FinalizeErr("failed to decode tx")
                ELSE FinalizedTx(Sha256(to_vec_Tx(tx.v)), signature.v, tx.v))))

\* finalize_transaction with a hash that covers the signature
finalize_transaction_mut_hash(tx_blob_b58, signature_b58) ==
    Let(Base58Decode(tx_blob_b58), LAMBDA tx_encoded :
        IF ~tx_encoded.ok THEN FinalizeErr("invalid blob base58")
        ELSE Let(Base58Decode(signature_b58), LAMBDA signature :
            IF ~signature.ok THEN FinalizeErr("invalid signature base58")
            ELSE Let(from_slice_Tx(tx_encoded.v), LAMBDA tx :
                IF ~tx.ok THEN FinalizeErr("failed to decode tx")
                ELSE FinalizedTx(Sha256(tx_encoded.v \o signature.v), signature.v, tx.v))))

\* finalize_transaction taking a signature text that is not Base58 as no bytes
finalize_transaction_mut_sig(tx_blob_b58, signature_b58) ==
    Let(Base58Decode(tx_blob_b58), LAMBDA tx_encoded :
        IF ~tx_encoded.ok THEN FinalizeErr("invalid blob base58")
        ELSE Let(from_slice_Tx(tx_encoded.v), LAMBDA tx :
                IF ~tx.ok THEN FinalizeErr("failed to decode tx")
                ELSE FinalizedTx(Sha256(tx_encoded.v), Base58Decode(signature_b58).v, tx.v)))

finalize_transaction(tx_blob_b58, signature_b58) ==
    Let(Base58Decode(tx_blob_b58), LAMBDA tx_encoded :
        IF ~tx_encoded.ok THEN FinalizeErr("invalid blob base58")
        ELSE Let(Base58Decode(signature_b58), LAMBDA signature :
            IF ~signature.ok THEN FinalizeErr("invalid signature base58")
            ELSE Let(from_slice_Tx(tx_encoded.v), LAMBDA tx :
                IF ~tx.ok THEN FinalizeErr("failed to decode tx")
                ELSE FinalizedTx(Sha256(tx_encoded.v), signature.v, tx.v))))

(***************************************************************************)
(* blockchain/types.rs: Argument, TransactionRequest;                      *)
(* blockchain/client.rs: create_transaction_blob.                          *)
(***************************************************************************)
ArgString(s) == [variant |-> "String", s |-> s, n |-> <<>>]
ArgNumber(n) == [variant |-> "Number", s |-> <<>>, n |-> n]
ArgBase58(s) == [variant |-> "Base58", s |-> s, n |-> <<>>]
ArgHex(s) == [variant |-> "Hex", s |-> s, n |-> <<>>]
ArgUtf8(s) == [variant |-> "Utf8", s |-> s, n |-> <<>>]

\* the match with a Number entering the Action as its 8 bytes, not its digits
ArgumentBytes_mut(arg) ==
    CASE arg.variant = "String" -> Decoded(arg.s)
      [] arg.variant = "Number" -> Decoded(arg.n)
      [] arg.variant = "Base58" -> Base58Decode(arg.s)
      [] arg.variant = "Hex" -> HexDecode(TrimStartMatches0x(arg.s))
      [] arg.variant = "Utf8" -> Decoded(arg.s)

\* the match on the argument's variant
ArgumentBytes(arg) ==
    CASE arg.variant = "String" -> Decoded(arg.s)
      [] arg.variant = "Number" -> Decoded(I64ToString(arg.n))
      [] arg.variant = "Base58" -> Base58Decode(arg.s)
      [] arg.variant = "Hex" -> HexDecode(TrimStartMatches0x(arg.s))
      [] arg.variant = "Utf8" -> Decoded(arg.s)

BlobErr(kind) ==
    [ok |-> FALSE, kind |-> kind, blob |-> <<>>, signing_payload |-> <<>>,
     transaction_hash |-> <<>>, tx_bytes |-> <<>>]

\* UnsignedTransactionBlob with a transaction_hash that is the digest of the digest
UnsignedTransactionBlob_mut(unsigned) ==
    [ok |-> TRUE, kind |-> "Ok",
     blob |-> Base58Encode(unsigned.tx_blob),
     signing_payload |-> HexEncode(unsigned.signing_hash),
     transaction_hash |-> Base58Encode(Sha256(unsigned.signing_hash)),
     tx_bytes |-> unsigned.tx_blob]

\* Ok(UnsignedTransactionBlob { blob, signing_payload, transaction_hash, tx_bytes })
UnsignedTransactionBlob(unsigned) ==
    [ok |-> TRUE, kind |-> "Ok",
     blob |-> Base58Encode(unsigned.tx_blob),
     signing_payload |-> HexEncode(unsigned.signing_hash),
     transaction_hash |-> Base58Encode(unsigned.signing_hash),
     tx_bytes |-> unsigned.tx_blob]

create_transaction_blob(req, now) ==
    Let(Base58Decode(req.signer), LAMBDA signer_pk :
        IF ~signer_pk.ok THEN BlobErr("ValidationFailed")
        ELSE Let([i \in 1..Len(req.args) |-> ArgumentBytes(req.args[i])], LAMBDA args :
            IF \E i \in 1..Len(args) : ~args[i].ok THEN BlobErr("ValidationFailed")
            ELSE UnsignedTransactionBlob(
                    build_unsigned(signer_pk.v, req.contract, req.function,
                                   [i \in 1..Len(args) |-> args[i].v],
                                   req.attached_symbol, req.attached_amount, req.nonce, now))))

(***************************************************************************)
(* The network as the client sees it.                                      *)
(***************************************************************************)
\* reqwest's send() fails (connection / timeout)
TransportError == [kind |-> "transport", status |-> 0]
\* the closure returns before sending (unsupported method)
ConfigurationOutcome == [kind |-> "configuration", status |-> 0]
\* HTTP status codes a node can answer with
Statuses == {200, 299, 300, 500}
\* the node answers with a status line
Response(status) == [kind |-> "response", status |-> status]
Responses == { Response(s) : s \in Statuses }
\* error markers of a JSON body; "absent" is a missing or non-string error field
Markers == {"absent", "ok", "not_found", "invalid_signature"}
\* the named sub-fields the endpoints look for, and a tx_hash of the node's
FieldNames == {"balances", "stats", "entries", "transaction", "txs", "trainers", "tx_hash"}
\* a sub-field either decodes into the target type or does not
FieldValues == {"good", "bad"}

\* a body whose bytes cannot be read from the connection
UnreadableBody == [readable |-> FALSE, json |-> FALSE, error |-> "absent", name |-> "none", value |-> "absent"]
\* a body that is not JSON
NotJsonBody == [readable |-> TRUE, json |-> FALSE, error |-> "absent", name |-> "none", value |-> "absent"]
\* JSON objects with an optional error marker and at most one data field
JsonBodies ==
    { [readable |-> TRUE, json |-> TRUE, error |-> m, name |-> "none", value |-> "absent"] : m \in Markers }
    \cup [readable : {TRUE}, json : {TRUE}, error : Markers, name : FieldNames, value : FieldValues]
Bodies == {UnreadableBody, NotJsonBody} \cup JsonBodies
NoBody == [readable |-> FALSE, json |-> FALSE, error |-> "absent", name |-> "unset", value |-> "absent"]

(***************************************************************************)
(* Results (blockchain/error.rs).                                          *)
(***************************************************************************)
NoResult == [ok |-> FALSE, kind |-> "none", attempts |-> 0, value |-> "none", error |-> "", tx_hash |-> None]
Ok(v) == [ok |-> TRUE, kind |-> "Ok", attempts |-> 0, value |-> v, error |-> "", tx_hash |-> None]
Err(k) == [ok |-> FALSE, kind |-> k, attempts |-> 0, value |-> "none", error |-> "", tx_hash |-> None]
NetworkRetryExhausted(n) ==
    [ok |-> FALSE, kind |-> "NetworkRetryExhausted", attempts |-> n, value |-> "none", error |-> "", tx_hash |-> None]
\* a SubmitResponse that keeps the node's error text only next to a tx_hash
SubmitOk_mut(error, hash) ==
    [ok |-> TRUE, kind |-> "Ok", attempts |-> 0, value |-> "SubmitResponse",
     error |-> IF hash.some THEN error ELSE "unknown", tx_hash |-> hash]

\* Ok(SubmitResponse { error, tx_hash })
SubmitOk(error, hash) ==
    [ok |-> TRUE, kind |-> "Ok", attempts |-> 0, value |-> "SubmitResponse", error |-> error, tx_hash |-> hash]

(***************************************************************************)
(* reqwest: StatusCode::is_success                                         *)
(***************************************************************************)
is_success_mut(status) == status >= 200
is_success(status) == status >= 200 /\ status <= 299

(***************************************************************************)
(* tokio_retry: ExponentialBackoff::from_millis(base).map(jitter).take(n)  *)
(***************************************************************************)
\* the iterator: current starts at base, each next() yields current * factor
\* and multiplies current by base
ExponentialBackoff(base, n) == [current |-> base, base |-> base, factor |-> 1, remaining |-> n]
StrategyHasNext(s) == s.remaining > 0
StrategyValue(s) == s.current * s.factor
\* an iterator that yields its first delay again and again
StrategyAdvance_mut(s) == s
StrategyAdvance(s) == [s EXCEPT !.current = s.current * s.base, !.remaining = s.remaining - 1]
NoStrategy == [current |-> 0, base |-> 0, factor |-> 0, remaining |-> 0]
\* jitter: duration.mul_f64(rand::random::<f64>())
jitter(d) == { (d * j) \div JitterDen : j \in 0..(JitterDen - 1) }

(***************************************************************************)
(* The read endpoints.                                                     *)
(***************************************************************************)
ReadOps == {"get_account_balance", "get_chain_stats", "get_block_by_height", "get_transaction",
            "get_transaction_history", "get_validators", "get_contract_state"}
\* every read endpoint calls retry_request("GET", path, None)
MethodOf(o) == "GET"
\* the closure's match on method: GET and POST build a request
SendsRequest(m) == m \in {"GET", "POST"}

\* serde_json::Value::get(key)
Get(b, key) == IF b.name = key THEN b.value ELSE "absent"

parse_response_mut(b) ==
    IF ~b.readable THEN Err("HttpRequest")
    ELSE IF ~b.json THEN Err("HttpRequest")
    ELSE Ok("json")

\* response.text() then serde_json::from_str
parse_response(b) ==
    IF ~b.readable THEN Err("HttpRequest")
    ELSE IF ~b.json THEN Err("InvalidResponse")
    ELSE Ok("json")

get_account_balance(b) ==
    IF ~parse_response(b).ok THEN parse_response(b)
    ELSE IF b.error # "ok" THEN Err("AccountNotFound")
    ELSE IF Get(b, "balances") = "absent" THEN Err("InvalidResponse")
    ELSE IF Get(b, "balances") = "bad" THEN Err("InvalidResponse")
    ELSE Ok("balances")

\* get_chain_stats taking the stats without looking at the error marker
get_chain_stats_mut(b) ==
    IF ~parse_response(b).ok THEN parse_response(b)
    ELSE IF Get(b, "stats") = "absent" THEN Err("InvalidResponse")
    ELSE IF Get(b, "stats") = "bad" THEN Err("InvalidResponse")
    ELSE Ok("stats")

get_chain_stats(b) ==
    IF ~parse_response(b).ok THEN parse_response(b)
    ELSE IF b.error # "ok" THEN Err("InvalidResponse")
    ELSE IF Get(b, "stats") = "absent" THEN Err("InvalidResponse")
    ELSE IF Get(b, "stats") = "bad" THEN Err("InvalidResponse")
    ELSE Ok("stats")

get_block_by_height(b) ==
    IF ~parse_response(b).ok THEN parse_response(b)
    ELSE IF b.error # "ok" THEN Err("InvalidResponse")
    ELSE IF Get(b, "entries") = "absent" THEN Err("InvalidResponse")
    ELSE IF Get(b, "entries") = "bad" THEN Err("InvalidResponse")
    ELSE Ok("entries")

get_transaction(b) ==
    IF ~parse_response(b).ok THEN parse_response(b)
    ELSE IF b.error = "not_found" THEN Err("InvalidResponse")
    ELSE IF Get(b, "transaction") = "absent" THEN Err("InvalidResponse")
    ELSE IF Get(b, "transaction") = "bad" THEN Err("InvalidResponse")
    ELSE Ok("transaction")

get_transaction_history(b) ==
    IF ~parse_response(b).ok THEN parse_response(b)
    ELSE IF Get(b, "txs") = "absent" THEN Err("InvalidResponse")
    ELSE IF Get(b, "txs") = "bad" THEN Err("InvalidResponse")
    ELSE Ok("txs")

get_validators(b) ==
    IF ~parse_response(b).ok THEN parse_response(b)
    ELSE IF b.error # "ok" THEN Err("InvalidResponse")
    ELSE IF Get(b, "trainers") = "absent" THEN Err("InvalidResponse")
    ELSE IF Get(b, "trainers") = "bad" THEN Err("InvalidResponse")
    ELSE Ok("trainers")

get_contract_state(b) == parse_response(b)

\* what the endpoint returns once retry_request has handed it a 2xx response
Decode(o, b) ==
    CASE o = "get_account_balance" -> get_account_balance(b)
      [] o = "get_chain_stats" -> get_chain_stats(b)
      [] o = "get_block_by_height" -> get_block_by_height(b)
      [] o = "get_transaction" -> get_transaction(b)
      [] o = "get_transaction_history" -> get_transaction_history(b)
      [] o = "get_validators" -> get_validators(b)
      [] o = "get_contract_state" -> get_contract_state(b)

(***************************************************************************)
(* Inputs of the model.                                                    *)
(***************************************************************************)
\* most arguments of a request
MaxArgs == 2
\* clock readings
MaxClock == 2

\* i64 values: 42, i64::MIN
I64_42 == <<0, 0, 0, 0, 0, 0, 0, 42>>
I64_Min == <<128, 0, 0, 0, 0, 0, 0, 0>>

\* arguments: Number -1, Hex "0xff", Base58 "0" (not Base58)
ArgChoices ==
    { ArgNumber(<<255, 255, 255, 255, 255, 255, 255, 255>>), ArgHex(<<48, 120, 102, 102>>),
      ArgBase58(<<48>>) }
ArgLists == UNION { [1..n -> ArgChoices] : n \in 0..MaxArgs }

\* the requests: signer "2" (the byte 1) or "0" (not Base58), contract
\* "Coin", function "transfer", attached "AMA" and "1" or none, the nonce
\* i64::MIN or none
Requests ==
    [signer : { <<50>>, <<48>> }, contract : { Utf8("Coin") }, function : { Utf8("transfer") },
     args : ArgLists,
     attached_symbol : { None, Some(Utf8("AMA")) }, attached_amount : { None, Some(<<49>>) },
     nonce : { None, Some(I64_Min) }]
NoRequest ==
    [signer |-> <<>>, contract |-> <<>>, function |-> <<>>, args |-> <<>>,
     attached_symbol |-> None, attached_amount |-> None, nonce |-> None]

\* signature texts: "2", "13" (a leading zero byte), "0" (not Base58), ""
Signatures == { <<50>>, <<49, 51>>, <<48>>, <<>> }

\* the i64 whose to_string() is the text, for the texts "-1" and "42"
NumberOfText(text) ==
    IF text = <<45, 49>> THEN Some(<<255, 255, 255, 255, 255, 255, 255, 255>>)
    ELSE IF text = <<52, 50>> THEN Some(I64_42)
    ELSE None

\* the first argument of r given in another variant of Argument that carries
\* the same bytes; r itself where the variant has no value with those bytes
\* (a String holds UTF-8 only, a Number only its decimal rendering)
Respelled(r, form) ==
    IF Len(r.args) = 0 THEN r
    ELSE Let(ArgumentBytes(r.args[1]).v, LAMBDA bytes :
            CASE form = "as_b58" -> [r EXCEPT !.args[1] = ArgBase58(Base58Encode(bytes))]
              [] form = "as_0x" -> [r EXCEPT !.args[1] = ArgHex(<<48, 120>> \o HexEncode(bytes))]
              [] form = "as_utf8" ->
                    IF IsUtf8(bytes) THEN [r EXCEPT !.args[1] = ArgUtf8(bytes)] ELSE r
              [] form = "as_string" ->
                    IF IsUtf8(bytes) THEN [r EXCEPT !.args[1] = ArgString(bytes)] ELSE r
              [] form = "as_number" ->
                    IF NumberOfText(bytes).some
                    THEN [r EXCEPT !.args[1] = ArgNumber(NumberOfText(bytes).v)] ELSE r)

\* the ways the second of two calls differs from the first
Changes ==
    {"same", "respell", "arg", "nonce", "signer",
     "as_b58", "as_0x", "as_utf8", "as_string", "as_number", "odd_hex", "double_0x"}
Changed(r, change) ==
    CASE change \in {"as_b58", "as_0x", "as_utf8", "as_string", "as_number"} -> Respelled(r, change)
      [] change = "odd_hex" -> [r EXCEPT !.args = <<ArgHex(<<102>>)>> \o r.args]
      [] change = "double_0x" -> [r EXCEPT !.args = <<ArgHex(<<48, 120, 48, 120, 102, 102>>)>> \o r.args]
      [] change = "same" -> r
      [] change = "respell" ->
            IF Len(r.args) = 0 THEN r
            ELSE [r EXCEPT !.args[1] = ArgHex(HexEncode(ArgumentBytes(r.args[1]).v))]
      [] change = "arg" ->
            IF Len(r.args) = 0 THEN [r EXCEPT !.args = <<ArgString(<<50>>)>>]
            ELSE [r EXCEPT !.args[1] =
                    ArgString([ArgumentBytes(r.args[1]).v EXCEPT ![1] = (@ + 1) % 256])]
      [] change = "nonce" -> [r EXCEPT !.nonce = Some(I64_42)]
      [] change = "signer" -> [r EXCEPT !.signer = <<51>>]

\* the bytes of a Tx with its fields in another order than to_vec writes them
ReorderedTxBytes(tx) ==
    EncodeTerm(TMap(<< <<TBin(Utf8("signer")), TBin(tx.signer)>>,
                       <<TBin(Utf8("nonce")), SerializeI128(tx.nonce)>>,
                       <<TBin(Utf8("action")), SerializeTxAction(tx.action)>> >>))
\* blobs that create_transaction_blob did not return: a text that is not
\* Base58, bytes that are no term, and the Tx of a returned blob reordered
ForeignBlob(kind, created) ==
    CASE kind = "not_base58" -> <<48>>
      [] kind = "not_a_term" -> Base58Encode(<<9, 9>>)
      [] kind = "reordered" -> Base58Encode(ReorderedTxBytes(from_slice_Tx(created.tx_bytes).v))

\* the request behind the blob that is submitted
ReferenceRequest ==
    [signer |-> <<50>>, contract |-> Utf8("Coin"),
     function |-> Utf8("transfer"), args |-> <<ArgString(<<49>>)>>,
     attached_symbol |-> None, attached_amount |-> None, nonce |-> Some(I64_42)]
\* what submit_signed_transaction is called with: a blob that
\* create_transaction_blob returned, a text that is not Base58 or the Base58
\* of bytes that are no Tx, with a signature text that is Base58 ("2") or
\* not ("0")
SignedTransaction(blob, signature, now) ==
    [transaction |-> IF blob = "created" THEN create_transaction_blob(ReferenceRequest, now).blob
                     ELSE ForeignBlob(blob, BlobErr("none")),
     signature |-> signature, network |-> None]
NoSigned == [transaction |-> <<>>, signature |-> <<>>, network |-> None]

(***************************************************************************)
(* The testnet faucet (wasm/mod.rs, wasm/mint.rs): what a request carries. *)
(***************************************************************************)
\* const CLAIM_COOLDOWN_SECS: f64 = 86400.0
CLAIM_COOLDOWN_SECS == 86400
\* mint::transfer: "address must be 48 bytes"
ReceiverLen == 48
\* days of the worker's clock that are followed
MaxDays == 1
\* faucet requests that are followed
MaxClaims == 2

\* the readings of Date::now() in seconds: the start of a day and one second
\* before the next day
Instants == { k * CLAIM_COOLDOWN_SECS + e : k \in 0..MaxDays, e \in {0, CLAIM_COOLDOWN_SECS - 1} }

\* the request headers the handler looks at (Headers::entries gives the
\* names in lower case)
HeaderNames == {"x-forwarded-for", "cf-connecting-ip", "x-real-ip"}
NoHeaders == [h \in HeaderNames |-> None]
\* a request with the given values of the three headers
Headers(xff, cf, real) ==
    [h \in HeaderNames |-> IF h = "x-forwarded-for" THEN xff ELSE IF h = "cf-connecting-ip" THEN cf ELSE real]

\* str::split(',').next(): the text before the first comma
FirstEntry(v) ==
    IF \A i \in 1..Len(v) : v[i] # 44 THEN v
    ELSE SubSeq(v, 1, (CHOOSE i \in 1..Len(v) : v[i] = 44 /\ \A j \in 1..(i - 1) : v[j] # 44) - 1)

\* str::trim: the text without its leading and trailing white space
Trim(s) ==
    IF \A i \in 1..Len(s) : s[i] \in {9, 10, 13, 32} THEN <<>>
    ELSE SubSeq(s, CHOOSE i \in 1..Len(s) : s[i] \notin {9, 10, 13, 32} /\ \A j \in 1..(i - 1) : s[j] \in {9, 10, 13, 32},
                   CHOOSE i \in 1..Len(s) : s[i] \notin {9, 10, 13, 32} /\ \A j \in (i + 1)..Len(s) : s[j] \in {9, 10, 13, 32})

\* main: client_ip = req.headers().get("CF-Connecting-IP")
ClientIp(headers) == headers["cf-connecting-ip"]

\* claim_testnet_ama with the header order of another proxy setup: x-real-ip
\* before cf-connecting-ip
ClaimIp_mut(headers, client_ip) ==
    IF headers["x-forwarded-for"].some THEN Some(Trim(FirstEntry(headers["x-forwarded-for"].v)))
    ELSE IF headers["x-real-ip"].some THEN headers["x-real-ip"]
    ELSE IF headers["cf-connecting-ip"].some THEN headers["cf-connecting-ip"]
    ELSE client_ip

\* claim_testnet_ama: the ip the claim is counted against
ClaimIp(headers, client_ip) ==
    IF headers["x-forwarded-for"].some THEN Some(Trim(FirstEntry(headers["x-forwarded-for"].v)))
    ELSE IF headers["cf-connecting-ip"].some THEN headers["cf-connecting-ip"]
    ELSE IF headers["x-real-ip"].some THEN headers["x-real-ip"]
    ELSE client_ip

\* two receivers of 48 bytes in Base58 ("1" is the zero byte), a receiver of
\* one byte and a text that is not Base58
Address1 == [i \in 1..ReceiverLen |-> 49]
Address2 == [i \in 1..ReceiverLen |-> IF i = ReceiverLen THEN 50 ELSE 49]
ShortAddress == <<50>>
NotBase58Address == <<48>>

\* the result of SELECT claimed_at FROM faucet_claims WHERE ip = ?1
NotFound == [found |-> FALSE, claimed_at |-> 0]
Found(claimed_at) == [found |-> TRUE, claimed_at |-> claimed_at]
\* the rows of a table with the given ip
RowsOf(table, ip) == SelectSeq(table, LAMBDA row : row.ip = ip)
\* .first(Some("claimed_at")): the first row, if any
First(rows) == IF rows = <<>> THEN NotFound ELSE Found(rows[1].claimed_at)

\* mint::transfer: Err before anything is sent (a variable of the environment
\* is missing, the key or the address does not decode, the receiver is not
\* 48 bytes), Err when the fetch fails, and Ok with the status in its text
\* for every answer of the node
transfer(address, outcome) ==
    IF outcome.kind = "configuration" THEN [ok |-> FALSE, sent |-> FALSE, status |-> 0]
    ELSE IF ~Base58Decode(address).ok THEN [ok |-> FALSE, sent |-> FALSE, status |-> 0]
    ELSE IF Len(Base58Decode(address).v) # ReceiverLen THEN [ok |-> FALSE, sent |-> FALSE, status |-> 0]
    ELSE IF outcome.kind = "transport" THEN [ok |-> FALSE, sent |-> FALSE, status |-> 0]
    ELSE [ok |-> TRUE, sent |-> TRUE, status |-> outcome.status]

\* the slots of concurrent faucet requests
Slots == {1, 2}
\* a slot with no request
NoClaim ==
    [pc |-> "idle", headers |-> NoHeaders, ip |-> <<>>, address |-> <<>>, now |-> 0,
     existing |-> NotFound, status |-> 0, result |-> "none"]

(***************************************************************************)
(* The JSON arguments of a tool call, and serde's reading of an Argument   *)
(* (#[serde(untagged)]: the variants are tried in the order of their       *)
(* declaration and the first that deserializes is taken).                  *)
(***************************************************************************)
\* a key that the object does not carry
Absent == [type |-> "absent", s |-> <<>>, n |-> <<>>]
\* a JSON string and a JSON integer that fits an i64
JString(s) == [type |-> "string", s |-> s, n |-> <<>>]
JInt(n) == [type |-> "int", s |-> <<>>, n |-> n]
\* the JSON values that are neither: an integer above i64::MAX, a number
\* with a fraction, null, a boolean
JOther(type) == [type |-> type, s |-> <<>>, n |-> <<>>]
\* a JSON object, by what it carries under the three keys
JObject(b58, hex, utf8) ==
    [type |-> "object", s |-> <<>>, n |-> <<>>, b58 |-> b58, hex |-> hex, utf8 |-> utf8]

\* the values under a key: absent, a string, an integer, or null
KeyValues(s) == {Absent, JString(s), JInt(I64_42), JOther("null")}
\* the JSON values an argument is given as: "42", "2", 42, i64::MIN, 2^63, 1.5, null, true,
\* and the objects over b58 "2", hex "ff", utf8 "x"
JsonArguments ==
    { JString(<<52, 50>>), JString(<<50>>), JInt(I64_42), JInt(I64_Min), JOther("big_integer"),
      JOther("float"), JOther("null"), JOther("bool") }
    \cup { JObject(b58, hex, utf8) :
              b58 \in KeyValues(<<50>>), hex \in KeyValues(<<102, 102>>), utf8 \in KeyValues(<<120>>) }

\* the variants tried with Hex before Base58
DeserializeArgument_mut(j) ==
    IF j.type = "string" THEN Decoded(ArgString(j.s))
    ELSE IF j.type = "int" THEN Decoded(ArgNumber(j.n))
    ELSE IF j.type # "object" THEN DecodeErr(ArgString(<<>>))
    ELSE IF j.hex.type = "string" THEN Decoded(ArgHex(j.hex.s))
    ELSE IF j.b58.type = "string" THEN Decoded(ArgBase58(j.b58.s))
    ELSE IF j.utf8.type = "string" THEN Decoded(ArgUtf8(j.utf8.s))
    ELSE DecodeErr(ArgString(<<>>))

\* Argument::deserialize: String(String), Number(i64), Base58 { b58 },
\* Hex { hex }, Utf8 { utf8 }; a struct variant needs its key with a string
\* under it and ignores the other keys
DeserializeArgument(j) ==
    IF j.type = "string" THEN Decoded(ArgString(j.s))
    ELSE IF j.type = "int" THEN Decoded(ArgNumber(j.n))
    ELSE IF j.type # "object" THEN DecodeErr(ArgString(<<>>))
    ELSE IF j.b58.type = "string" THEN Decoded(ArgBase58(j.b58.s))
    ELSE IF j.hex.type = "string" THEN Decoded(ArgHex(j.hex.s))
    ELSE IF j.utf8.type = "string" THEN Decoded(ArgUtf8(j.utf8.s))
    ELSE DecodeErr(ArgString(<<>>))

\* TransactionRequest::deserialize of the tool's arguments, whose "args" are
\* the given JSON values and whose other fields are those of the reference
\* request
DeserializeTransactionRequest(json) ==
    IF \E i \in 1..Len(json) : ~DeserializeArgument(json[i]).ok THEN DecodeErr(NoRequest)
    ELSE Decoded([ReferenceRequest EXCEPT !.args = [i \in 1..Len(json) |-> DeserializeArgument(json[i]).v]])

(***************************************************************************)
(* The worker's client (blockchain/client_wasm.rs) and the tool            *)
(* submit_transaction (wasm/mod.rs).                                       *)
(***************************************************************************)
\* env.var(name): the variable is set to a text, or it is not set
EnvSet(v) == [set |-> TRUE, v |-> v]
EnvUnset == [set |-> FALSE, v |-> ""]
\* the texts "testnet", "mainnet" and "Testnet" of a request's network field
Testnet == <<116, 101, 115, 116, 110, 101, 116>>
Mainnet == <<109, 97, 105, 110, 110, 101, 116>>
TestnetCapital == <<84, 101, 115, 116, 110, 101, 116>>

\* handle_tool_call, "submit_transaction", sending every transaction that
\* names a network to the testnet
SubmitUrl_mut(network, env_testnet_rpc, rpc) ==
    IF network.some
    THEN IF env_testnet_rpc.set THEN env_testnet_rpc.v ELSE "https://testnet.amadeus.bot"
    ELSE rpc

\* handle_tool_call, "submit_transaction": the node the transaction goes to
SubmitUrl(network, env_testnet_rpc, rpc) ==
    IF network.some /\ network.v = Testnet
    THEN IF env_testnet_rpc.set THEN env_testnet_rpc.v ELSE "https://testnet.amadeus.bot"
    ELSE rpc

\* main: BLOCKCHAIN_URL is not set, the default is taken
BlockchainUrl == "https://nodes.amadeus.bot"

\* request(): one fetch; a failed fetch, a status outside 200..299, a body
\* that cannot be read and a body that is not JSON are errors
wasm_request(outcome, b) ==
    IF outcome.kind = "transport" THEN Err("HttpRequestWasm")
    ELSE IF ~(outcome.status >= 200 /\ outcome.status < 300) THEN Err("InvalidResponse")
    ELSE IF ~b.readable THEN Err("HttpRequestWasm")
    ELSE IF ~b.json THEN Err("InvalidResponse")
    ELSE Ok("json")

\* what a read endpoint of client_wasm.rs makes of the JSON that request()
\* returned
WasmDecode(o, b) ==
    CASE o = "get_account_balance" ->
            IF b.error # "ok" THEN Err("AccountNotFound")
            ELSE IF Get(b, "balances") = "absent" THEN Err("InvalidResponse")
            ELSE IF Get(b, "balances") = "bad" THEN Err("InvalidResponse")
            ELSE Ok("balances")
      [] o = "get_chain_stats" ->
            IF Get(b, "stats") = "absent" THEN Err("InvalidResponse")
            ELSE IF Get(b, "stats") = "bad" THEN Err("InvalidResponse")
            ELSE Ok("stats")
      [] o = "get_block_by_height" ->
            IF Get(b, "entries") = "absent" THEN Err("InvalidResponse")
            ELSE IF Get(b, "entries") = "bad" THEN Err("InvalidResponse")
            ELSE Ok("entries")
      [] o = "get_transaction" ->
            IF b.error = "not_found" THEN Err("InvalidResponse")
            ELSE IF Get(b, "transaction") = "absent" THEN Err("InvalidResponse")
            ELSE IF Get(b, "transaction") = "bad" THEN Err("InvalidResponse")
            ELSE Ok("transaction")
      [] o = "get_transaction_history" ->
            IF Get(b, "txs") = "absent" THEN Err("InvalidResponse")
            ELSE IF Get(b, "txs") = "bad" THEN Err("InvalidResponse")
            ELSE Ok("txs")
      [] o = "get_validators" ->
            IF Get(b, "trainers") = "absent" THEN Err("InvalidResponse")
            ELSE IF Get(b, "trainers") = "bad" THEN Err("InvalidResponse")
            ELSE Ok("trainers")
      [] o = "get_contract_state" -> Ok("json")

\* a read endpoint of client_wasm.rs, given the node's answer and its body
WasmRead(o, outcome, b) ==
    IF ~wasm_request(outcome, b).ok THEN wasm_request(outcome, b) ELSE WasmDecode(o, b)

(***************************************************************************)
(* State.                                                                  *)
(***************************************************************************)
VARIABLES
    pc,         \* "idle" | "attempt" | "backoff" | "body" | "done"
    op,         \* the operation being served, "none" when idle
    strategy,   \* retry_strategy: what is left of the backoff iterator
    delay,      \* the sleep before the next attempt, in ms (while pc = "backoff")
    calls,      \* invocations of the retry closure for this request
    sent,       \* HTTP requests sent for this request
    inflight,   \* HTTP requests sent and not yet completed
    request,    \* the HTTP request sent last
    log,        \* outcome of every completed attempt, oldest first
    body,       \* the body of the 2xx response, once read
    result,     \* what the call returned
    tx_hash,    \* submit_signed_transaction: the Base58 of the finalized hash
    tpc,        \* the transaction: "none" | "new" | "created" | "finalized"
    req,        \* the TransactionRequest of the latest create_transaction_blob
    clock,      \* the reading of the system clock
    at,         \* the reading of the clock in the latest create_transaction_blob
    unsigned,   \* what the latest create_transaction_blob returned
    prev,       \* the call of create_transaction_blob before the latest
    signed,     \* the blob and signature handed to finalize_transaction
    finalized,  \* what finalize_transaction returned
    api_key,    \* BLOCKCHAIN_API_KEY as main read it: the bearer credential, if any
    parked,     \* the request of a second caller of the client, while the first runs
    date,       \* Date::now() of the worker, in whole seconds
    faucet_claims,          \* the rows of the D1 table faucet_claims, oldest first
    faucet_request_dumps,   \* the number of rows of the D1 table faucet_request_dumps
    ip_unique,  \* whether the table's schema holds one row per ip (the schema is not in the sources)
    claim,      \* the faucet requests being served, one per slot
    transfers,  \* the faucet transfers sent to the node, oldest first
    started,    \* faucet requests begun so far
    arguments,  \* the JSON values given as "args" to the tool create_transaction
    testnet_rpc \* AMADEUS_TESTNET_RPC in the worker's environment, if set

cvars == <<pc, op, strategy, delay, calls, sent, inflight, request, log, body, result, tx_hash, api_key,
          parked>>
txvars == <<tpc, req, clock, at, unsigned, prev, signed, finalized>>
fvars == <<date, faucet_claims, faucet_request_dumps, ip_unique, claim, transfers, started, arguments,
          testnet_rpc>>
vars == <<cvars, txvars, fvars>>

NoRequestSent ==
    [method |-> "none", url |-> "none", path |-> "none", content_type |-> "none", authorization |-> None,
     body |-> <<>>]
NoPrev == [called |-> FALSE, req |-> NoRequest, now |-> 0, out |-> BlobErr("none")]

ClientIdle ==
    /\ pc = "idle"
    /\ op = "none"
    /\ strategy = NoStrategy
    /\ delay = 0
    /\ calls = 0
    /\ sent = 0
    /\ inflight = 0
    /\ request = NoRequestSent
    /\ log = <<>>
    /\ body = NoBody
    /\ result = NoResult
    /\ tx_hash = <<>>

\* a caller of the client that has no request under way
IdleCaller ==
    [pc |-> "idle", op |-> "none", strategy |-> NoStrategy, delay |-> 0, calls |-> 0, sent |-> 0,
     inflight |-> 0, request |-> NoRequestSent, log |-> <<>>, body |-> NoBody, result |-> NoResult,
     tx_hash |-> <<>>]

\* the faucet before its first request
FaucetStart ==
    /\ date = 0
    /\ faucet_claims = <<>>
    /\ faucet_request_dumps = 0
    /\ claim = [r \in Slots |-> NoClaim]
    /\ transfers = <<>>
    /\ started = 0
    /\ arguments = <<>>
FaucetIdle == FaucetStart /\ ip_unique = FALSE /\ testnet_rpc = EnvSet("https://testnet.example")

\* the client is built by BlockchainClient::new(base_url); main has read the
\* credential from the environment, where it is set ("k") or not
Init ==
    /\ ClientIdle
    /\ parked = IdleCaller
    /\ api_key \in {None, Some(<<107>>)}
    /\ tpc = "none"
    /\ req = NoRequest
    /\ clock = 1
    /\ at = 0
    /\ unsigned = BlobErr("none")
    /\ prev = NoPrev
    /\ signed = NoSigned
    /\ finalized = FinalizeErr("none")
    /\ FaucetIdle

(***************************************************************************)
(* retry_request: Retry::spawn(retry_strategy, closure)                    *)
(***************************************************************************)
\* the path of a read endpoint, without its parameters
PathOf(o) ==
    CASE o = "get_account_balance" -> "/api/wallet/balance_all/"
      [] o = "get_chain_stats" -> "/api/chain/stats"
      [] o = "get_block_by_height" -> "/api/chain/height/"
      [] o = "get_transaction" -> "/api/chain/tx/"
      [] o = "get_transaction_history" -> "/api/chain/tx_events_by_account/"
      [] o = "get_validators" -> "/api/peer/trainers"
      [] o = "get_contract_state" -> "/api/contract/get/"

\* one invocation of the closure: build the request and send it
InvokeClosure(o) ==
    /\ calls' = calls + 1
    /\ IF SendsRequest(MethodOf(o))
       THEN /\ sent' = sent + 1
            /\ inflight' = 1
            /\ request' = [method |-> MethodOf(o), url |-> "base_url", path |-> PathOf(o),
                           content_type |-> "application/json", authorization |-> None,
                           body |-> <<>>]
       ELSE UNCHANGED <<sent, inflight, request>>
    /\ pc' = "attempt"

\* a read endpoint is called: the strategy is built and the first attempt made
Call(o) ==
    /\ pc = "idle"
    /\ op' = o
    /\ strategy' = ExponentialBackoff(BackoffBaseMillis, RetryTake)
    /\ InvokeClosure(o)
    /\ UNCHANGED <<delay, log, body, result, tx_hash, api_key, parked>>
    /\ UNCHANGED txvars
    /\ UNCHANGED fvars

\* the outcomes an attempt can end with
Outcomes == IF inflight = 0 THEN {ConfigurationOutcome} ELSE {TransportError} \cup Responses

\* the closure's result: Ok(resp) only for a response with a 2xx status
AttemptOk(outcome) == outcome.kind = "response" /\ is_success(outcome.status)

\* Retry: on Err take the next delay of the strategy, or give up when there is none
RetryDecision(s) == IF StrategyHasNext(s) THEN "sleep" ELSE "give_up"

\* the attempt in flight completes
AttemptCompletes(outcome) ==
    /\ pc = "attempt"
    /\ op \in ReadOps
    /\ outcome \in Outcomes
    /\ inflight' = 0
    /\ log' = Append(log, outcome)
    /\ IF AttemptOk(outcome)
       THEN /\ pc' = "body"
            /\ UNCHANGED <<strategy, delay, result>>
       ELSE IF RetryDecision(strategy) = "sleep"
       THEN /\ pc' = "backoff"
            /\ delay' \in jitter(StrategyValue(strategy))
            /\ strategy' = StrategyAdvance(strategy)
            /\ UNCHANGED result
       ELSE /\ pc' = "done"
            /\ result' = NetworkRetryExhausted(ReportedAttempts)
            /\ UNCHANGED <<strategy, delay>>
    /\ UNCHANGED <<op, calls, sent, request, body, tx_hash, api_key, parked>>
    /\ UNCHANGED txvars
    /\ UNCHANGED fvars

\* the sleep is over: the closure runs again
BackoffElapses ==
    /\ pc = "backoff"
    /\ InvokeClosure(op)
    /\ delay' = 0
    /\ UNCHANGED <<op, strategy, log, body, result, tx_hash, api_key, parked>>
    /\ UNCHANGED txvars
    /\ UNCHANGED fvars

\* the endpoint reads the body of the 2xx response and decodes it
BodyArrives(b) ==
    /\ pc = "body"
    /\ op \in ReadOps
    /\ b \in Bodies
    /\ body' = b
    /\ result' = Decode(op, b)
    /\ pc' = "done"
    /\ UNCHANGED <<op, strategy, delay, calls, sent, inflight, request, log, tx_hash, api_key, parked>>
    /\ UNCHANGED txvars
    /\ UNCHANGED fvars

(***************************************************************************)
(* submit_signed_transaction                                               *)
(***************************************************************************)
\* a submit that posts the blob as it was given and leaves the validation
\* to the node
Submit_mut(blob, signature) ==
    /\ pc = "idle"
    /\ op' = "submit_signed_transaction"
    /\ signed' = SignedTransaction(blob, signature, clock)
    /\ finalized' = finalize_transaction(signed'.transaction, signed'.signature)
    /\ tx_hash' = IF finalized'.ok THEN Base58Encode(finalized'.hash) ELSE <<>>
    /\ request' = [method |-> "POST", url |-> "url", path |-> "/api/tx/submit",
                   content_type |-> "text/plain", authorization |-> None,
                   body |-> signed'.transaction]
    /\ calls' = 1
    /\ sent' = 1
    /\ inflight' = 1
    /\ pc' = "attempt"
    /\ UNCHANGED result
    /\ UNCHANGED <<strategy, delay, log, body, api_key, parked>>
    /\ UNCHANGED <<tpc, req, clock, at, unsigned, prev>>
    /\ UNCHANGED fvars

\* the call: finalize, then one POST of the Base58 of the packed wire object
Submit(blob, signature) ==
    /\ pc = "idle"
    /\ op' = "submit_signed_transaction"
    /\ signed' = SignedTransaction(blob, signature, clock)
    /\ finalized' = finalize_transaction(signed'.transaction, signed'.signature)
    /\ IF ~finalized'.ok
       THEN /\ result' = Err("ValidationFailed")
            /\ pc' = "done"
            /\ UNCHANGED <<calls, sent, inflight, request, tx_hash>>
       ELSE /\ tx_hash' = Base58Encode(finalized'.hash)
            /\ request' = [method |-> "POST", url |-> "url", path |-> "/api/tx/submit",
                           content_type |-> "text/plain", authorization |-> None,
                           body |-> Base58Encode(finalized'.packed)]
            /\ calls' = 1
            /\ sent' = 1
            /\ inflight' = 1
            /\ pc' = "attempt"
            /\ UNCHANGED result
    /\ UNCHANGED <<strategy, delay, log, body, api_key, parked>>
    /\ UNCHANGED <<tpc, req, clock, at, unsigned, prev>>
    /\ UNCHANGED fvars

\* the POST completes: a transport error and a non-2xx status end the call
SubmitCompletes(outcome) ==
    /\ pc = "attempt"
    /\ op = "submit_signed_transaction"
    /\ outcome \in {TransportError} \cup Responses
    /\ inflight' = 0
    /\ log' = Append(log, outcome)
    /\ IF outcome.kind = "transport"
       THEN result' = Err("HttpRequest") /\ pc' = "done"
       ELSE IF ~is_success(outcome.status)
       THEN result' = Err("InvalidResponse") /\ pc' = "done"
       ELSE UNCHANGED result /\ pc' = "body"
    /\ UNCHANGED <<op, strategy, delay, calls, sent, request, body, tx_hash, api_key, parked>>
    /\ UNCHANGED txvars
    /\ UNCHANGED fvars

\* the body of the 2xx response is read: tx_hash only for the marker "ok"
SubmitBodyArrives(b) ==
    /\ pc = "body"
    /\ op = "submit_signed_transaction"
    /\ b \in Bodies
    /\ body' = b
    /\ result' = IF ~parse_response(b).ok THEN parse_response(b)
                 ELSE SubmitOk(IF b.error = "absent" THEN "unknown" ELSE b.error,
                               IF b.error = "ok" THEN Some(tx_hash) ELSE None)
    /\ pc' = "done"
    /\ UNCHANGED <<op, strategy, delay, calls, sent, inflight, request, log, tx_hash, api_key, parked>>
    /\ UNCHANGED txvars
    /\ UNCHANGED fvars

\* the call returns to its caller; the client keeps no state of the request
Return ==
    /\ pc = "done"
    /\ pc' = "idle"
    /\ op' = "none"
    /\ strategy' = NoStrategy
    /\ delay' = 0
    /\ calls' = 0
    /\ sent' = 0
    /\ inflight' = 0
    /\ request' = NoRequestSent
    /\ log' = <<>>
    /\ body' = NoBody
    /\ result' = NoResult
    /\ tx_hash' = <<>>
    /\ signed' = NoSigned
    /\ finalized' = FinalizeErr("none")
    /\ UNCHANGED <<tpc, req, clock, at, unsigned, prev, api_key, parked>>
    /\ UNCHANGED fvars

Next ==
    \/ \E o \in ReadOps : Call(o)
    \/ \E outcome \in {ConfigurationOutcome, TransportError} \cup Responses : AttemptCompletes(outcome)
    \/ BackoffElapses
    \/ \E b \in Bodies : BodyArrives(b)
    \/ \E blob \in {"created", "not_base58", "not_a_term"}, signature \in {<<50>>, <<48>>} :
          Submit(blob, signature)
    \/ \E outcome \in {TransportError} \cup Responses : SubmitCompletes(outcome)
    \/ \E b \in Bodies : SubmitBodyArrives(b)
    \/ Return

Spec == Init /\ [][Next]_vars

(***************************************************************************)
(* SpecLive: the read queries under the scheduling the runtime gives them. *)
(* The reqwest client is built with a timeout, so an attempt in flight     *)
(* completes or fails; tokio's sleep elapses; reading the body of a        *)
(* response returns or fails.  Nothing obliges a caller to call or to pick *)
(* up the result.                                                          *)
(***************************************************************************)
NextLive ==
    \/ \E o \in ReadOps : Call(o)
    \/ \E outcome \in {TransportError, Response(200), Response(300), Response(500)} : AttemptCompletes(outcome)
    \/ BackoffElapses
    \/ \E b \in {UnreadableBody, NotJsonBody,
                  [readable |-> TRUE, json |-> TRUE, error |-> "ok", name |-> "none", value |-> "absent"]} :
          BodyArrives(b)
    \/ Return

SpecLive ==
    /\ Init
    /\ [][NextLive]_vars
    /\ WF_vars(\E outcome \in {TransportError, Response(200), Response(300), Response(500)} :
                  AttemptCompletes(outcome))
    /\ WF_vars(BackoffElapses)
    /\ WF_vars(\E b \in {UnreadableBody, NotJsonBody,
                          [readable |-> TRUE, json |-> TRUE, error |-> "ok", name |-> "none",
                           value |-> "absent"]} : BodyArrives(b))

(***************************************************************************)
(* SpecShared: two callers share the client (it is Clone and holds no      *)
(* state of a request).  Each caller's request is a future of its own; the *)
(* executor runs one of them at a time and may turn to the other at any    *)
(* await.                                                                  *)
(***************************************************************************)
\* the executor turning to the other caller while keeping the strategy of
\* the one that ran
Switch_mut ==
    /\ parked' = [pc |-> pc, op |-> op, strategy |-> parked.strategy, delay |-> delay,
                  calls |-> calls, sent |-> sent, inflight |-> inflight, request |-> request,
                  log |-> log, body |-> body, result |-> result, tx_hash |-> tx_hash]
    /\ pc' = parked.pc
    /\ op' = parked.op
    /\ strategy' = strategy
    /\ delay' = parked.delay
    /\ calls' = parked.calls
    /\ sent' = parked.sent
    /\ inflight' = parked.inflight
    /\ request' = parked.request
    /\ log' = parked.log
    /\ body' = parked.body
    /\ result' = parked.result
    /\ tx_hash' = parked.tx_hash
    /\ UNCHANGED api_key
    /\ UNCHANGED txvars
    /\ UNCHANGED fvars

\* the executor turns to the other caller: the locals of the request that
\* ran stay with it
Switch ==
    /\ parked' = [pc |-> pc, op |-> op, strategy |-> strategy, delay |-> delay,
                  calls |-> calls, sent |-> sent, inflight |-> inflight, request |-> request,
                  log |-> log, body |-> body, result |-> result, tx_hash |-> tx_hash]
    /\ pc' = parked.pc
    /\ op' = parked.op
    /\ strategy' = parked.strategy
    /\ delay' = parked.delay
    /\ calls' = parked.calls
    /\ sent' = parked.sent
    /\ inflight' = parked.inflight
    /\ request' = parked.request
    /\ log' = parked.log
    /\ body' = parked.body
    /\ result' = parked.result
    /\ tx_hash' = parked.tx_hash
    /\ UNCHANGED api_key
    /\ UNCHANGED txvars
    /\ UNCHANGED fvars

NextShared ==
    \/ \E o \in {"get_chain_stats", "get_contract_state"} : Call(o)
    \/ \E outcome \in {TransportError, Response(500), Response(200)} : AttemptCompletes(outcome)
    \/ BackoffElapses
    \/ \E b \in {NotJsonBody, [readable |-> TRUE, json |-> TRUE, error |-> "ok",
                                name |-> "stats", value |-> "good"]} : BodyArrives(b)
    \/ Return
    \/ Switch

SpecShared == Init /\ [][NextShared]_vars

(***************************************************************************)
(* SpecTx: create_transaction_blob, a second call of it, and               *)
(* finalize_transaction.                                                   *)
(***************************************************************************)
InitTx ==
    /\ ClientIdle
    /\ parked = IdleCaller
    /\ api_key = None
    /\ tpc = "new"
    /\ req \in Requests
    /\ clock = 1
    /\ at = 0
    /\ unsigned = BlobErr("none")
    /\ prev = NoPrev
    /\ signed = NoSigned
    /\ finalized = FinalizeErr("none")
    /\ FaucetIdle

\* the tool create_transaction: the request goes to create_transaction_blob
CreateTransactionBlob ==
    /\ tpc = "new"
    /\ unsigned' = create_transaction_blob(req, clock)
    /\ at' = clock
    /\ tpc' = "created"
    /\ UNCHANGED <<req, clock, prev, signed, finalized>>
    /\ UNCHANGED cvars
    /\ UNCHANGED fvars

\* time passes between two calls
Tick ==
    /\ tpc = "created"
    /\ unsigned.ok
    /\ ~prev.called
    /\ clock < MaxClock
    /\ clock' = clock + 1
    /\ UNCHANGED <<tpc, req, at, unsigned, prev, signed, finalized>>
    /\ UNCHANGED cvars
    /\ UNCHANGED fvars

\* a second call, with the same request or one that differs in one field
CreateAgain(change) ==
    /\ tpc = "created"
    /\ ~prev.called
    /\ unsigned.ok
    /\ prev' = [called |-> TRUE, req |-> req, now |-> at, out |-> unsigned]
    /\ req' = Changed(req, change)
    /\ unsigned' = create_transaction_blob(req', clock)
    /\ at' = clock
    /\ UNCHANGED <<tpc, clock, signed, finalized>>
    /\ UNCHANGED cvars
    /\ UNCHANGED fvars

\* the blob comes back with a signature text
Finalize(signature) ==
    /\ tpc = "created"
    /\ ~prev.called
    /\ clock = 1
    /\ unsigned.ok
    /\ signed' = [transaction |-> unsigned.blob, signature |-> signature, network |-> None]
    /\ finalized' = finalize_transaction(unsigned.blob, signature)
    /\ tpc' = "finalized"
    /\ UNCHANGED <<req, clock, at, unsigned, prev>>
    /\ UNCHANGED cvars
    /\ UNCHANGED fvars

\* finalize_transaction is handed a blob that create_transaction_blob did not
\* return, with the signature text "2"
FinalizeForeign(kind) ==
    /\ tpc = "created"
    /\ ~prev.called
    /\ clock = 1
    /\ unsigned.ok
    /\ signed' = [transaction |-> ForeignBlob(kind, unsigned), signature |-> <<50>>, network |-> None]
    /\ finalized' = finalize_transaction(signed'.transaction, signed'.signature)
    /\ tpc' = "finalized"
    /\ UNCHANGED <<req, clock, at, unsigned, prev>>
    /\ UNCHANGED cvars
    /\ UNCHANGED fvars

NextTx ==
    \/ CreateTransactionBlob
    \/ Tick
    \/ \E change \in Changes : CreateAgain(change)
    \/ \E signature \in Signatures : Finalize(signature)
    \/ \E kind \in {"not_base58", "not_a_term", "reordered"} : FinalizeForeign(kind)

SpecTx == InitTx /\ [][NextTx]_vars

(***************************************************************************)
(* SpecNonce: create_transaction_blob for the nonces a request can carry,  *)
(* at either clock reading.                                                *)
(***************************************************************************)
\* i64 values: 0, 1, 42, 127, 128, 255, 256, 65535, 65536, 2^31 - 1, 2^31,
\* 2^32, 2^56, i64::MAX - 1, i64::MAX, and -1, -127, -128, -129, -255, -256,
\* -257, -65536, -2^31, -2^31 - 1, -2^32, -2^56, i64::MIN + 1, i64::MIN
NonceValues ==
    { <<0, 0, 0, 0, 0, 0, 0, 0>>, <<0, 0, 0, 0, 0, 0, 0, 1>>, I64_42,
      <<0, 0, 0, 0, 0, 0, 0, 127>>, <<0, 0, 0, 0, 0, 0, 0, 128>>, <<0, 0, 0, 0, 0, 0, 0, 255>>,
      <<0, 0, 0, 0, 0, 0, 1, 0>>, <<0, 0, 0, 0, 0, 0, 255, 255>>, <<0, 0, 0, 0, 0, 1, 0, 0>>,
      <<0, 0, 0, 0, 127, 255, 255, 255>>, <<0, 0, 0, 0, 128, 0, 0, 0>>,
      <<0, 0, 0, 1, 0, 0, 0, 0>>, <<1, 0, 0, 0, 0, 0, 0, 0>>,
      <<127, 255, 255, 255, 255, 255, 255, 254>>, <<127, 255, 255, 255, 255, 255, 255, 255>>,
      <<255, 255, 255, 255, 255, 255, 255, 255>>, <<255, 255, 255, 255, 255, 255, 255, 129>>,
      <<255, 255, 255, 255, 255, 255, 255, 128>>, <<255, 255, 255, 255, 255, 255, 255, 127>>,
      <<255, 255, 255, 255, 255, 255, 255, 1>>, <<255, 255, 255, 255, 255, 255, 255, 0>>,
      <<255, 255, 255, 255, 255, 255, 254, 255>>, <<255, 255, 255, 255, 255, 255, 0, 0>>,
      <<255, 255, 255, 255, 128, 0, 0, 0>>, <<255, 255, 255, 255, 127, 255, 255, 255>>,
      <<255, 255, 255, 255, 0, 0, 0, 0>>, <<255, 0, 0, 0, 0, 0, 0, 0>>,
      <<128, 0, 0, 0, 0, 0, 0, 1>>, I64_Min }

InitNonce ==
    /\ ClientIdle
    /\ parked = IdleCaller
    /\ api_key = None
    /\ tpc = "new"
    /\ \E n \in {None} \cup { Some(v) : v \in NonceValues } : req = [ReferenceRequest EXCEPT !.nonce = n]
    /\ clock \in 1..MaxClock
    /\ at = 0
    /\ unsigned = BlobErr("none")
    /\ prev = NoPrev
    /\ signed = NoSigned
    /\ finalized = FinalizeErr("none")
    /\ FaucetIdle

SpecNonce == InitNonce /\ [][CreateTransactionBlob]_vars

(***************************************************************************)
(* SpecFaucet: the tool claim_testnet_ama.  The handler runs from one      *)
(* await to the next; the worker serves other requests meanwhile, and the  *)
(* D1 database is shared by all of them.  Every D1 statement is taken to   *)
(* execute; an INSERT fails only on the table's unique key, if it has one. *)
(***************************************************************************)
InitFaucet ==
    /\ ClientIdle
    /\ parked = IdleCaller
    /\ api_key = None
    /\ tpc = "none"
    /\ req = NoRequest
    /\ clock = 1
    /\ at = 0
    /\ unsigned = BlobErr("none")
    /\ prev = NoPrev
    /\ signed = NoSigned
    /\ finalized = FinalizeErr("none")
    /\ FaucetStart
    /\ ip_unique \in BOOLEAN
    /\ testnet_rpc = EnvSet("https://testnet.example")

\* tools/call claim_testnet_ama arrives: the ip and the address are taken
\* from the request, the clock is read and the headers are dumped
ClaimBegins(r, headers, address) ==
    /\ claim[r].pc = "idle"
    /\ started < MaxClaims
    /\ started' = started + 1
    /\ IF ~ClaimIp(headers, ClientIp(headers)).some
       THEN /\ claim' = [claim EXCEPT ![r] = [NoClaim EXCEPT !.pc = "done", !.headers = headers,
                                                             !.result = "could not determine client IP"]]
            /\ UNCHANGED faucet_request_dumps
       ELSE IF ~address.some
       THEN /\ claim' = [claim EXCEPT ![r] = [NoClaim EXCEPT !.pc = "done", !.headers = headers,
                                                             !.ip = ClaimIp(headers, ClientIp(headers)).v,
                                                             !.result = "missing address"]]
            /\ UNCHANGED faucet_request_dumps
       ELSE /\ claim' = [claim EXCEPT ![r] = [NoClaim EXCEPT !.pc = "select", !.headers = headers,
                                                             !.ip = ClaimIp(headers, ClientIp(headers)).v,
                                                             !.address = address.v, !.now = date]]
            /\ faucet_request_dumps' = faucet_request_dumps + 1
    /\ UNCHANGED <<date, faucet_claims, ip_unique, transfers>>
    /\ UNCHANGED <<arguments, testnet_rpc>>
    /\ UNCHANGED cvars
    /\ UNCHANGED txvars

\* the SELECT answers: a claim of less than a day ago ends the request
ClaimSelects(r) ==
    /\ claim[r].pc = "select"
    /\ IF /\ First(RowsOf(faucet_claims, claim[r].ip)).found
          /\ claim[r].now - First(RowsOf(faucet_claims, claim[r].ip)).claimed_at < CLAIM_COOLDOWN_SECS
       THEN claim' = [claim EXCEPT ![r].pc = "done",
                                   ![r].existing = First(RowsOf(faucet_claims, claim[r].ip)),
                                   ![r].result = "can only claim once per day"]
       ELSE claim' = [claim EXCEPT ![r].pc = "transfer",
                                   ![r].existing = First(RowsOf(faucet_claims, claim[r].ip))]
    /\ UNCHANGED <<date, faucet_claims, faucet_request_dumps, ip_unique, transfers, started>>
    /\ UNCHANGED <<arguments, testnet_rpc>>
    /\ UNCHANGED cvars
    /\ UNCHANGED txvars

\* mint::transfer returns: Err ends the request, Ok goes on to the record
ClaimTransfers(r, outcome) ==
    /\ claim[r].pc = "transfer"
    /\ transfers' = IF transfer(claim[r].address, outcome).sent
                    THEN Append(transfers, [ip |-> claim[r].ip, at |-> date])
                    ELSE transfers
    /\ claim' = IF transfer(claim[r].address, outcome).ok
                THEN [claim EXCEPT ![r].pc = "record",
                                   ![r].status = transfer(claim[r].address, outcome).status]
                ELSE [claim EXCEPT ![r].pc = "done", ![r].result = "transfer failed"]
    /\ UNCHANGED <<date, faucet_claims, faucet_request_dumps, ip_unique, started>>
    /\ UNCHANGED <<arguments, testnet_rpc>>
    /\ UNCHANGED cvars
    /\ UNCHANGED txvars

\* the claim is recorded: UPDATE if the SELECT had found a row, else INSERT
ClaimRecords(r) ==
    /\ claim[r].pc = "record"
    /\ IF claim[r].existing.found
       THEN /\ faucet_claims' = [i \in 1..Len(faucet_claims) |->
                                    IF faucet_claims[i].ip = claim[r].ip
                                    THEN [faucet_claims[i] EXCEPT !.claimed_at = claim[r].now,
                                                                  !.address = claim[r].address]
                                    ELSE faucet_claims[i]]
            /\ claim' = [claim EXCEPT ![r].pc = "done", ![r].result = "success"]
       ELSE IF ip_unique /\ RowsOf(faucet_claims, claim[r].ip) # <<>>
       THEN /\ UNCHANGED faucet_claims
            /\ claim' = [claim EXCEPT ![r].pc = "done", ![r].result = "UNIQUE constraint failed"]
       ELSE /\ faucet_claims' = Append(faucet_claims, [ip |-> claim[r].ip, address |-> claim[r].address,
                                                        claimed_at |-> claim[r].now])
            /\ claim' = [claim EXCEPT ![r].pc = "done", ![r].result = "success"]
    /\ UNCHANGED <<date, faucet_request_dumps, ip_unique, transfers, started>>
    /\ UNCHANGED <<arguments, testnet_rpc>>
    /\ UNCHANGED cvars
    /\ UNCHANGED txvars

\* the response is sent; the slot serves the next request
ClaimReturns(r) ==
    /\ claim[r].pc = "done"
    /\ claim' = [claim EXCEPT ![r] = NoClaim]
    /\ UNCHANGED <<date, faucet_claims, faucet_request_dumps, ip_unique, transfers, started>>
    /\ UNCHANGED <<arguments, testnet_rpc>>
    /\ UNCHANGED cvars
    /\ UNCHANGED txvars

\* time passes
TimePasses(d) ==
    /\ d \in Instants
    /\ d > date
    /\ date' = d
    /\ UNCHANGED <<faucet_claims, faucet_request_dumps, ip_unique, claim, transfers, started>>
    /\ UNCHANGED <<arguments, testnet_rpc>>
    /\ UNCHANGED cvars
    /\ UNCHANGED txvars

NextFaucet ==
    \/ \E r \in Slots, headers \in {Headers(Some(<<97>>), None, None), Headers(None, Some(<<98>>), None), NoHeaders},
          address \in {Some(Address1), Some(Address2), Some(ShortAddress)} :
          ClaimBegins(r, headers, address)
    \/ \E r \in Slots : ClaimSelects(r)
    \/ \E r \in Slots, outcome \in {TransportError, Response(200), Response(500)} :
          ClaimTransfers(r, outcome)
    \/ \E r \in Slots : ClaimRecords(r)
    \/ \E r \in Slots : ClaimReturns(r)
    \/ \E d \in Instants : TimePasses(d)

SpecFaucet == InitFaucet /\ [][NextFaucet]_vars

(***************************************************************************)
(* SpecClaimIp: one faucet request at a time, with every combination of    *)
(* the headers the ip is taken from.                                       *)
(***************************************************************************)
NextClaimIp ==
    \/ \E xff \in {None, Some(<<32, 97, 32, 44, 98>>), Some(<<>>)}, cf \in {None, Some(<<98>>)},
          real \in {None, Some(<<99>>)}, address \in {Some(Address1), None} :
          ClaimBegins(1, Headers(xff, cf, real), address)
    \/ ClaimSelects(1)
    \/ \E outcome \in {ConfigurationOutcome, TransportError, Response(200), Response(500)} :
          ClaimTransfers(1, outcome)
    \/ ClaimRecords(1)
    \/ ClaimReturns(1)
    \/ \E d \in Instants : TimePasses(d)

\* the table faucet_claims without a unique key on ip
InitClaimIp == InitFaucet /\ ~ip_unique
SpecClaimIp == InitClaimIp /\ [][NextClaimIp]_vars

(***************************************************************************)
(* SpecArgs: the tool create_transaction, called with one JSON argument.   *)
(***************************************************************************)
InitArgs ==
    /\ ClientIdle
    /\ parked = IdleCaller
    /\ api_key = None
    /\ tpc = "new"
    /\ req = NoRequest
    /\ clock \in 1..MaxClock
    /\ at = 0
    /\ unsigned = BlobErr("none")
    /\ prev = NoPrev
    /\ signed = NoSigned
    /\ finalized = FinalizeErr("none")
    /\ FaucetIdle

\* handle_tool_call, "create_transaction": the arguments are deserialized
\* into a TransactionRequest, which goes to create_transaction_blob
CreateTransactionTool(json) ==
    /\ tpc = "new"
    /\ arguments' = json
    /\ IF DeserializeTransactionRequest(json).ok
       THEN /\ req' = DeserializeTransactionRequest(json).v
            /\ unsigned' = create_transaction_blob(req', clock)
       ELSE /\ req' = NoRequest
            /\ unsigned' = BlobErr("invalid arguments")
    /\ at' = clock
    /\ tpc' = "created"
    /\ UNCHANGED <<clock, prev, signed, finalized>>
    /\ UNCHANGED <<date, faucet_claims, faucet_request_dumps, ip_unique, claim, transfers, started,
                   testnet_rpc>>
    /\ UNCHANGED cvars

\* the response is sent; the next call is served
ToolReturns ==
    /\ tpc = "created"
    /\ tpc' = "new"
    /\ req' = NoRequest
    /\ unsigned' = BlobErr("none")
    /\ at' = 0
    /\ arguments' = <<>>
    /\ UNCHANGED <<clock, prev, signed, finalized>>
    /\ UNCHANGED <<date, faucet_claims, faucet_request_dumps, ip_unique, claim, transfers, started,
                   testnet_rpc>>
    /\ UNCHANGED cvars

NextArgs ==
    \/ \E j \in JsonArguments : CreateTransactionTool(<<j>>)
    \/ ToolReturns

SpecArgs == InitArgs /\ [][NextArgs]_vars

(***************************************************************************)
(* SpecWasm: the worker.  Its client makes one fetch per call; the tool    *)
(* submit_transaction chooses the node by the request's network field.     *)
(***************************************************************************)
InitWasm ==
    /\ ClientIdle
    /\ parked = IdleCaller
    /\ api_key = None
    /\ tpc = "none"
    /\ req = NoRequest
    /\ clock = 1
    /\ at = 0
    /\ unsigned = BlobErr("none")
    /\ prev = NoPrev
    /\ signed = NoSigned
    /\ finalized = FinalizeErr("none")
    /\ FaucetStart
    /\ ip_unique = FALSE
    /\ testnet_rpc \in {EnvUnset, EnvSet("https://testnet.example")}

\* a read endpoint is called: request() sends its one fetch
WasmCall(o) ==
    /\ pc = "idle"
    /\ op' = o
    /\ calls' = 1
    /\ sent' = 1
    /\ inflight' = 1
    /\ request' = [method |-> "GET", url |-> BlockchainUrl, path |-> PathOf(o),
                   content_type |-> "application/json", authorization |-> None, body |-> <<>>]
    /\ pc' = "attempt"
    /\ UNCHANGED <<strategy, delay, log, body, result, tx_hash, api_key, parked>>
    /\ UNCHANGED txvars
    /\ UNCHANGED fvars

\* the fetch completes: a failure and a status outside 200..299 end the call
WasmCompletes(outcome) ==
    /\ pc = "attempt"
    /\ op \in ReadOps
    /\ inflight' = 0
    /\ log' = Append(log, outcome)
    /\ IF outcome.kind = "transport" \/ ~(outcome.status >= 200 /\ outcome.status < 300)
       THEN result' = wasm_request(outcome, NoBody) /\ pc' = "done"
       ELSE UNCHANGED result /\ pc' = "body"
    /\ UNCHANGED <<op, strategy, delay, calls, sent, request, body, tx_hash, api_key, parked>>
    /\ UNCHANGED txvars
    /\ UNCHANGED fvars

\* the text of the response is read and the endpoint decodes it
WasmBodyArrives(b) ==
    /\ pc = "body"
    /\ op \in ReadOps
    /\ body' = b
    /\ result' = WasmRead(op, log[Len(log)], b)
    /\ pc' = "done"
    /\ UNCHANGED <<op, strategy, delay, calls, sent, inflight, request, log, tx_hash, api_key, parked>>
    /\ UNCHANGED txvars
    /\ UNCHANGED fvars

\* the tool submit_transaction: the node is chosen, then
\* submit_signed_transaction finalizes and sends one POST
SubmitTransactionTool(network, blob, signature) ==
    /\ pc = "idle"
    /\ op' = "submit_signed_transaction"
    /\ signed' = [SignedTransaction(blob, signature, clock) EXCEPT !.network = network]
    /\ finalized' = finalize_transaction(signed'.transaction, signed'.signature)
    /\ IF ~finalized'.ok
       THEN /\ result' = Err("ValidationFailed")
            /\ pc' = "done"
            /\ UNCHANGED <<calls, sent, inflight, request, tx_hash>>
       ELSE /\ tx_hash' = Base58Encode(finalized'.hash)
            /\ request' = [method |-> "POST", url |-> SubmitUrl(network, testnet_rpc, BlockchainUrl),
                           path |-> "/api/tx/submit", content_type |-> "text/plain",
                           authorization |-> None, body |-> Base58Encode(finalized'.packed)]
            /\ calls' = 1
            /\ sent' = 1
            /\ inflight' = 1
            /\ pc' = "attempt"
            /\ UNCHANGED result
    /\ UNCHANGED <<strategy, delay, log, body, api_key, parked>>
    /\ UNCHANGED <<tpc, req, clock, at, unsigned, prev>>
    /\ UNCHANGED fvars

\* the POST completes: a failed fetch and a status outside 200..299 end the
\* call
WasmSubmitCompletes(outcome) ==
    /\ pc = "attempt"
    /\ op = "submit_signed_transaction"
    /\ inflight' = 0
    /\ log' = Append(log, outcome)
    /\ IF outcome.kind = "transport"
       THEN result' = Err("HttpRequestWasm") /\ pc' = "done"
       ELSE IF ~(outcome.status >= 200 /\ outcome.status < 300)
       THEN result' = Err("InvalidResponse") /\ pc' = "done"
       ELSE UNCHANGED result /\ pc' = "body"
    /\ UNCHANGED <<op, strategy, delay, calls, sent, request, body, tx_hash, api_key, parked>>
    /\ UNCHANGED txvars
    /\ UNCHANGED fvars

\* the text of the response is read: tx_hash only for the marker "ok"
WasmSubmitBodyArrives(b) ==
    /\ pc = "body"
    /\ op = "submit_signed_transaction"
    /\ body' = b
    /\ result' = IF ~b.readable THEN Err("HttpRequestWasm")
                 ELSE IF ~b.json THEN Err("InvalidResponse")
                 ELSE SubmitOk(IF b.error = "absent" THEN "unknown" ELSE b.error,
                               IF b.error = "ok" THEN Some(tx_hash) ELSE None)
    /\ pc' = "done"
    /\ UNCHANGED <<op, strategy, delay, calls, sent, inflight, request, log, tx_hash, api_key, parked>>
    /\ UNCHANGED txvars
    /\ UNCHANGED fvars

NextWasm ==
    \/ \E o \in ReadOps : WasmCall(o)
    \/ \E outcome \in {TransportError} \cup Responses : WasmCompletes(outcome)
    \/ \E b \in Bodies : WasmBodyArrives(b)
    \/ \E network \in {None, Some(Testnet), Some(Mainnet), Some(TestnetCapital)},
          blob \in {"created", "not_base58", "not_a_term"}, signature \in {<<50>>, <<48>>} :
          SubmitTransactionTool(network, blob, signature)
    \/ \E outcome \in {TransportError} \cup Responses : WasmSubmitCompletes(outcome)
    \/ \E b \in Bodies : WasmSubmitBodyArrives(b)
    \/ Return

SpecWasm == InitWasm /\ [][NextWasm]_vars

(***************************************************************************)
(* Vocabulary of the properties.                                           *)
(***************************************************************************)
Last(s) == s[Len(s)]
\* the node answered with a status in 200..299
Is2xx(o) == o.kind = "response" /\ o.status \in 200..299
\* a transport error or a non-2xx status
RetryableFailure(o) == o.kind = "transport" \/ (o.kind = "response" /\ o.status \notin 200..299)
\* Retry::spawn runs the closure once and once more for every delay of the strategy
AttemptCeiling == 1 + RetryTake
AllTransportErrors == \A i \in 1..Len(log) : log[i] = TransportError
AllRetryableFailures == \A i \in 1..Len(log) : RetryableFailure(log[i])
\* the endpoints that gate their value on error = "ok"
MarkerGated == {"get_account_balance", "get_chain_stats", "get_block_by_height", "get_validators"}
FinalMarkers == {"not_found", "invalid_signature"}

(***************************************************************************)
(* C1: a read query whose transport fails on every attempt sends exactly   *)
(* 3 HTTP requests, then returns the retry-exhausted error; a 4th request  *)
(* is never sent.                                                          *)
(***************************************************************************)
C1_ExactlyThreeRequests ==
    (op \in ReadOps /\ AllTransportErrors) =>
        /\ sent <= ReportedAttempts
        /\ pc = "done" => (sent = ReportedAttempts /\ result.kind = "NetworkRetryExhausted")

(***************************************************************************)
(* C2: within one read query, attempt n+1 is issued if and only if attempt *)
(* n ended in a transport error or a non-2xx status and the attempt        *)
(* ceiling (one attempt plus one per delay of the strategy) is not         *)
(* reached; the first 2xx attempt ends the loop with success and nothing   *)
(* is sent after it.                                                       *)
(***************************************************************************)
C2_Step ==
    op \in ReadOps =>
          /\ (sent >= 1 /\ sent' = sent + 1)
                <=> (Len(log) = sent /\ sent >= 1 /\ RetryableFailure(Last(log)) /\ sent < AttemptCeiling)
          /\ (Len(log) >= 1 /\ Is2xx(Last(log))) =>
                /\ pc \in {"body", "done"}
                /\ result.kind # "NetworkRetryExhausted"
                /\ sent = Len(log)
                /\ \A i \in 1..(Len(log) - 1) : RetryableFailure(log[i])
                /\ sent' <= sent

C2_RetryIffRetryableFailure == [][C2_Step]_vars

C2_Witness ==
    /\ pc = "done" /\ op = "get_chain_stats" /\ result.ok
    /\ sent = 3 /\ Len(log) = 3
    /\ log[1] = TransportError /\ log[2] = Response(500) /\ log[3] = Response(200)

(***************************************************************************)
(* C3 as stated: once a read query has a 2xx response no further attempt   *)
(* is made; a non-JSON body yields InvalidResponse and a body with a       *)
(* marker other than "ok" yields an error, after exactly one 2xx attempt.  *)
(***************************************************************************)
C3_Original ==
    (pc = "done" /\ op \in ReadOps /\ body.readable) =>
        /\ sent = Len(log)
        /\ Cardinality({ i \in 1..Len(log) : Is2xx(log[i]) }) = 1
        /\ ~body.json => result.kind = "InvalidResponse"
        /\ (body.json /\ body.error \in FinalMarkers) => ~result.ok

(***************************************************************************)
(* C3 amended: once a read query has a 2xx response no further attempt is  *)
(* made whatever the body is; a non-JSON body yields InvalidResponse; a    *)
(* marker other than "ok" yields an error on the marker-gated queries      *)
(* (balance, stats, block entries, validators) and "not_found" yields one  *)
(* on get_transaction; each after exactly one 2xx attempt.                 *)
(***************************************************************************)
C3_Step ==
    (op \in ReadOps /\ Len(log) >= 1 /\ Is2xx(Last(log))) =>
          /\ sent' <= sent
          /\ sent = Len(log)
          /\ Cardinality({ i \in 1..Len(log) : Is2xx(log[i]) }) = 1
          /\ (pc = "done" /\ body.readable) =>
                /\ ~body.json => result.kind = "InvalidResponse"
                /\ (body.json /\ body.error \in FinalMarkers /\ op \in MarkerGated) =>
                      result.kind \in {"AccountNotFound", "InvalidResponse"}
                /\ (body.json /\ body.error = "not_found" /\ op = "get_transaction") =>
                      result.kind = "InvalidResponse"

C3_NoRetryAfter2xx == [][C3_Step]_vars

C3_Witness ==
    /\ pc = "done" /\ op = "get_validators"
    /\ Len(log) = 2 /\ log[1] = Response(500) /\ log[2] = Response(200) /\ sent = 2
    /\ body.json /\ body.error = "invalid_signature" /\ body.name = "trainers" /\ body.value = "good"
    /\ result.kind = "InvalidResponse"

(***************************************************************************)
(* C4: whenever a read query fails because every attempt failed, the       *)
(* error is NetworkRetryExhausted with attempts = 3 and that value is the  *)
(* number of HTTP requests sent for the query.                             *)
(***************************************************************************)
C4_AttemptsEqualsRequestsSent ==
    (pc = "done" /\ op \in ReadOps /\ AllRetryableFailures) =>
        /\ result.kind = "NetworkRetryExhausted"
        /\ result.attempts = ReportedAttempts
        /\ result.attempts = sent

(***************************************************************************)
(* C5: every client request, submit_signed_transaction as well as the read *)
(* queries, that ends after a transport failure or a non-2xx status has    *)
(* been retried up to the attempt ceiling and returns the retry-exhausted  *)
(* error.                                                                  *)
(***************************************************************************)
C5_RetriedToCeiling ==
    (pc = "done" /\ Len(log) >= 1 /\ RetryableFailure(Last(log))) =>
        /\ sent >= ReportedAttempts
        /\ result.kind = "NetworkRetryExhausted"

(***************************************************************************)
(* C6: get_transaction on a 2xx response whose JSON body has               *)
(* error = "not_found" returns AccountNotFound, never InvalidResponse.     *)
(***************************************************************************)
C6_NotFoundKind ==
    (pc = "done" /\ op = "get_transaction" /\ body.json /\ body.error = "not_found") =>
        /\ result.kind = "AccountNotFound"
        /\ result.kind # "InvalidResponse"

(***************************************************************************)
(* Vocabulary of the transaction properties.                               *)
(***************************************************************************)
\* the Tx that build_unsigned assembles for the request r at the clock reading now
RequestTx(r, now) ==
    BuiltTx(Base58Decode(r.signer).v, r.contract, r.function,
            [i \in 1..Len(r.args) |-> ArgumentBytes(r.args[i]).v],
            r.attached_symbol, r.attached_amount, NonceVal(r.nonce, now))
\* the texts of an UnsignedTransactionBlob
Texts(out) == <<out.blob, out.signing_payload, out.transaction_hash>>

(***************************************************************************)
(* C7: for every blob and signature that finalize_transaction accepts, the *)
(* hash it returns and the hash field of the packed wire object both equal *)
(* SHA-256 of the Base58-decoded blob; for a blob that                     *)
(* create_transaction_blob returned, that hash is the one behind           *)
(* signing_payload and transaction_hash and the embedded tx is the         *)
(* transaction that was built.                                             *)
(***************************************************************************)
C7_FinalizedHash ==
    (tpc = "finalized" /\ finalized.ok) =>
        LET txu == from_slice_TxU(finalized.packed)
        IN  /\ finalized.hash = Sha256(Base58Decode(signed.transaction).v)
            /\ txu.ok
            /\ txu.v.hash = finalized.hash
            /\ txu.v.signature = Base58Decode(signed.signature).v
            /\ signed.transaction = unsigned.blob =>
                  /\ HexDecode(unsigned.signing_payload) = Decoded(finalized.hash)
                  /\ Base58Decode(unsigned.transaction_hash) = Decoded(finalized.hash)
                  /\ txu.v.tx = RequestTx(req, at)

C7_Witness ==
    /\ tpc = "finalized" /\ finalized.ok
    /\ signed.transaction = unsigned.blob
    /\ signed.signature = <<49, 51>>
    /\ Len(req.args) = 2 /\ req.attached_symbol.some /\ req.nonce = Some(I64_Min)

(***************************************************************************)
(* C8: in every UnsignedTransactionBlob that create_transaction_blob       *)
(* returns, hex-decoding signing_payload and Base58-decoding               *)
(* transaction_hash give the same 32 bytes, and those bytes are SHA-256 of *)
(* the Base58-decoded blob.                                                *)
(***************************************************************************)
C8_SameDigest ==
    unsigned.ok =>
        LET digest == HexDecode(unsigned.signing_payload)
            bytes == Base58Decode(unsigned.blob)
        IN  /\ digest.ok
            /\ Len(digest.v) = DigestLen
            /\ Base58Decode(unsigned.transaction_hash) = digest
            /\ bytes.ok
            /\ digest.v = Sha256(bytes.v)
            /\ bytes.v = unsigned.tx_bytes

C8_Witness ==
    /\ tpc = "created" /\ unsigned.ok /\ ~prev.called
    /\ Len(req.args) = 2 /\ req.attached_amount.some /\ ~req.nonce.some
    /\ unsigned.signing_payload # <<>> /\ unsigned.transaction_hash # <<>>

(***************************************************************************)
(* C9: two calls of create_transaction_blob with identical signer,         *)
(* contract, function, argument bytes, attached fields and the same        *)
(* explicitly supplied nonce return identical blob, signing_payload and    *)
(* transaction_hash, whatever the clock reads at either call; two calls    *)
(* whose inputs differ in a byte return different blobs, signing payloads  *)
(* and transaction hashes.                                                 *)
(***************************************************************************)
C9_DigestStability ==
    (prev.called /\ unsigned.ok) =>
        /\ (prev.req.nonce.some /\ RequestTx(prev.req, prev.now) = RequestTx(req, at)) =>
              Texts(unsigned) = Texts(prev.out)
        /\ RequestTx(prev.req, prev.now) # RequestTx(req, at) =>
              /\ unsigned.blob # prev.out.blob
              /\ unsigned.signing_payload # prev.out.signing_payload
              /\ unsigned.transaction_hash # prev.out.transaction_hash

C9_Witness ==
    /\ prev.called /\ unsigned.ok
    /\ prev.now = 1 /\ at = 2
    /\ req = prev.req /\ req.nonce = Some(I64_Min) /\ Len(req.args) = 2
    /\ Texts(unsigned) = Texts(prev.out)

(***************************************************************************)
(* C10: encoding a Tx is deterministic and round-trips: decoding the bytes *)
(* that encoding produced gives the Tx that was built (args in order,      *)
(* contract, function, op, attached fields, nonce, signer), and a Tx has   *)
(* one encoding however its fields were assembled: the Tx read from bytes  *)
(* that carry the fields in another order encodes to the bytes             *)
(* build_unsigned produced.                                                *)
(***************************************************************************)
C10_EncodingRoundTrips ==
    /\ unsigned.ok =>
          LET read == from_slice_Tx(unsigned.tx_bytes)
          IN  /\ read = Decoded(RequestTx(req, at))
              /\ to_vec_Tx(read.v) = unsigned.tx_bytes
    /\ (tpc = "finalized" /\ finalized.ok) =>
          LET read == from_slice_Tx(Base58Decode(signed.transaction).v)
          IN  /\ read = Decoded(RequestTx(req, at))
              /\ to_vec_Tx(read.v) = unsigned.tx_bytes

C10_Witness ==
    /\ tpc = "finalized" /\ finalized.ok
    /\ signed.transaction # unsigned.blob
    /\ Base58Decode(signed.transaction).v # unsigned.tx_bytes
    /\ Len(req.args) = 2 /\ req.attached_symbol.some /\ req.attached_amount.some
    /\ req.nonce = Some(I64_Min)

(***************************************************************************)
(* C11: argument forms that decode to the same byte sequence produce the   *)
(* same encoded Action: when two requests are equal in everything but the  *)
(* forms of their arguments (Base58, hex with or without 0x, utf8, plain   *)
(* string, integer) and each argument of the one decodes to the bytes of   *)
(* its counterpart, the second call succeeds as the first did, returns the *)
(* same blob, signing_payload and transaction_hash, and the args of the    *)
(* encoded Action are those bytes with no trace of the variant.            *)
(***************************************************************************)
\* the byte sequence an argument form stands for
FormBytes(arg) ==
    CASE arg.variant \in {"String", "Utf8"} -> Decoded(arg.s)
      [] arg.variant = "Number" -> Decoded(I64ToString(arg.n))
      [] arg.variant = "Base58" -> Base58Decode(arg.s)
      [] arg.variant = "Hex" ->
            IF Len(arg.s) >= 2 /\ SubSeq(arg.s, 1, 2) = <<48, 120>>
            THEN HexDecode(SubSeq(arg.s, 3, Len(arg.s)))
            ELSE HexDecode(arg.s)
\* two requests equal in everything but the forms of their arguments
SameBytesOtherForms(r1, r2) ==
    /\ [r1 EXCEPT !.args = <<>>] = [r2 EXCEPT !.args = <<>>]
    /\ Len(r1.args) = Len(r2.args)
    /\ \A i \in 1..Len(r1.args) :
          FormBytes(r1.args[i]).ok /\ FormBytes(r1.args[i]) = FormBytes(r2.args[i])

C11_SameBytesSameBlob ==
    (prev.called /\ prev.out.ok /\ SameBytesOtherForms(prev.req, req)
        /\ (req.nonce.some \/ prev.now = at)) =>
        /\ unsigned.ok
        /\ Texts(unsigned) = Texts(prev.out)
        /\ from_slice_Tx(unsigned.tx_bytes).v.action.args
              = [i \in 1..Len(req.args) |-> FormBytes(prev.req.args[i]).v]

C11_Witness ==
    /\ prev.called /\ prev.out.ok /\ unsigned.ok
    /\ Len(req.args) = 2
    /\ prev.req.args[1].variant = "Number" /\ req.args[1].variant = "Base58"
    /\ req.args[2].variant = "Hex"
    /\ SameBytesOtherForms(prev.req, req)
    /\ Texts(unsigned) = Texts(prev.out)

(***************************************************************************)
(* C12: create_transaction_blob returns ValidationFailed if and only if    *)
(* the signer is not valid Base58 or an argument tagged b58 or hex is      *)
(* malformed in its encoding (hex being hex digits after an optional 0x    *)
(* prefix); for every other input it returns an UnsignedTransactionBlob.   *)
(***************************************************************************)
\* the request has a signer or an argument whose text encoding is malformed
Malformed(r) ==
    \/ ~Base58Decode(r.signer).ok
    \/ \E i \in 1..Len(r.args) :
          r.args[i].variant \in {"Base58", "Hex"} /\ ~FormBytes(r.args[i]).ok

C12_ValidationFailedIff ==
    tpc \in {"created", "finalized"} =>
        /\ unsigned.kind = "ValidationFailed" <=> Malformed(req)
        /\ ~Malformed(req) => unsigned.ok

(***************************************************************************)
(* C13: finalizing fails with ValidationFailed exactly when the blob is    *)
(* not valid Base58, the signature is not valid Base58, or the decoded     *)
(* blob bytes do not decode into a Tx; in every other case it returns a    *)
(* packed wire object (a TxU), which is what the submit POST carries.      *)
(***************************************************************************)
\* the SignedTransaction has a text that is not Base58 or a blob that is no Tx
Undecodable(tx) ==
    \/ ~Base58Decode(tx.transaction).ok
    \/ ~Base58Decode(tx.signature).ok
    \/ ~from_slice_Tx(Base58Decode(tx.transaction).v).ok

C13_FinalizeFailsIff ==
    op = "submit_signed_transaction" =>
        /\ Undecodable(signed) <=> result.kind = "ValidationFailed"
        /\ Undecodable(signed) <=> ~finalized.ok
        /\ Undecodable(signed) => pc = "done" /\ sent = 0
        /\ ~Undecodable(signed) =>
              /\ from_slice_TxU(finalized.packed).ok
              /\ request.body = Base58Encode(finalized.packed)

C13_Witness ==
    /\ op = "submit_signed_transaction" /\ pc = "done"
    /\ result.kind = "ValidationFailed"
    /\ Base58Decode(signed.transaction).ok /\ Base58Decode(signed.signature).ok
    /\ ~from_slice_Tx(Base58Decode(signed.transaction).v).ok

(***************************************************************************)
(* C14: finalizing performs no signature verification: for a blob that     *)
(* decodes into a Tx, every signature text that Base58-decodes, of any     *)
(* length and unrelated to the signer or the digest, is accepted; the      *)
(* packed wire object carries exactly the decoded signature bytes, and     *)
(* the hash and the tx of the result are those obtained with any other     *)
(* signature.                                                              *)
(***************************************************************************)
C14_NoSignatureVerification ==
    (tpc = "finalized" /\ ~Undecodable(signed)) =>
        LET txu == from_slice_TxU(finalized.packed)
            other == finalize_transaction(signed.transaction, <<50>>)
        IN  /\ finalized.ok
            /\ txu.ok
            /\ txu.v.signature = Base58Decode(signed.signature).v
            /\ finalized.hash = other.hash
            /\ txu.v.tx = from_slice_TxU(other.packed).v.tx

C14_Witness ==
    /\ tpc = "finalized" /\ finalized.ok
    /\ signed.transaction = unsigned.blob
    /\ signed.signature = <<>>
    /\ from_slice_TxU(finalized.packed).v.signature = <<>>
    /\ Len(req.args) = 1 /\ req.nonce = None

(***************************************************************************)
(* C15: submit_signed_transaction returns a tx_hash if and only if the     *)
(* node answered 2xx with a JSON body whose error is "ok"; that tx_hash is *)
(* the Base58 of the SHA-256 of the blob bytes, computed locally, whatever *)
(* the body carries; when the error field of the JSON body is missing or   *)
(* not "ok" the call returns Ok with that error text ("unknown" if         *)
(* missing) and no tx_hash.                                                *)
(***************************************************************************)
\* the node answered 2xx and its body was read as JSON
JsonAnswer == Len(log) >= 1 /\ Is2xx(Last(log)) /\ body.readable /\ body.json

C15_TxHashIffOk ==
    (op = "submit_signed_transaction" /\ pc = "done") =>
        /\ result.tx_hash.some <=> (JsonAnswer /\ body.error = "ok")
        /\ result.tx_hash.some =>
              result.tx_hash.v = Base58Encode(Sha256(Base58Decode(signed.transaction).v))
        /\ JsonAnswer =>
              /\ result.ok
              /\ result.error = IF body.error = "absent" THEN "unknown" ELSE body.error

C15_Witness ==
    /\ op = "submit_signed_transaction" /\ pc = "done"
    /\ JsonAnswer /\ body.error = "ok"
    /\ body.name = "tx_hash"
    /\ result.ok /\ result.tx_hash.some /\ result.error = "ok"

(***************************************************************************)
(* C16: when a bearer credential is configured for the client, every HTTP  *)
(* request the client sends (each attempt of every read query and the      *)
(* submit POST) carries the header Authorization: Bearer <key>; when none  *)
(* is configured no Authorization header is sent.                          *)
(***************************************************************************)
\* "Bearer " followed by the key
Bearer(key) == <<66, 101, 97, 114, 101, 114, 32>> \o key

C16_BearerOnEveryRequest ==
    sent > 0 =>
        request.authorization = IF api_key.some THEN Some(Bearer(api_key.v)) ELSE None

(***************************************************************************)
(* C17: for every explicitly supplied nonce n, the Tx decoded from the     *)
(* returned blob has nonce exactly n widened to 128 bits: its low 8 bytes  *)
(* are those of n and its high 8 bytes repeat the sign of n; the clock     *)
(* reading at the call makes no difference.                                *)
(***************************************************************************)
\* the 16 bytes d are the two's complement of the number whose 8 bytes are n
SignExtends(d, n) ==
    /\ Len(d) = I128Len
    /\ \A i \in 1..(I128Len - I64Len) : d[i] = IF n[1] >= 128 THEN 255 ELSE 0
    /\ SubSeq(d, I128Len - I64Len + 1, I128Len) = n

C17_NonceExact ==
    (tpc = "created" /\ req.nonce.some) =>
        LET read == from_slice_Tx(Base58Decode(unsigned.blob).v)
        IN  /\ unsigned.ok
            /\ read.ok
            /\ SignExtends(read.v.nonce, req.nonce.v)
            /\ unsigned.blob = create_transaction_blob(req, 1).blob

C17_Witness ==
    /\ tpc = "created" /\ unsigned.ok
    /\ clock = MaxClock /\ clock > 1
    /\ req.nonce = Some(<<255, 255, 255, 255, 127, 255, 255, 255>>)
    /\ from_slice_Tx(unsigned.tx_bytes).v.nonce[1] = 255

(***************************************************************************)
(* C18: the backoff delay before the k-th retry of a read query is the     *)
(* exponential base delay 100ms * 2^(k-1) (100ms, then 200ms, doubling)    *)
(* plus a non-negative random jitter, so each delay is at least its base   *)
(* delay.                                                                  *)
(***************************************************************************)
\* the base delay before the k-th retry, in ms
DoublingBase(k) == BackoffBaseMillis * 2^(k - 1)

C18_DelayAtLeastDoublingBase ==
    pc = "backoff" => delay >= DoublingBase(Len(log))

(***************************************************************************)
(* C19: attempts of one logical request are strictly sequential: at most   *)
(* one HTTP attempt of it is in flight, and attempt n+1 starts only after  *)
(* attempt n has completed with a failure and its backoff delay has        *)
(* elapsed; this holds also when two callers share the client and run      *)
(* requests concurrently, each request keeping its own attempt count: a    *)
(* step of one request changes nothing of the other, and the executor      *)
(* turning to the other request alters neither.                            *)
(***************************************************************************)
\* the request of the running caller
Running ==
    [pc |-> pc, op |-> op, strategy |-> strategy, delay |-> delay, calls |-> calls, sent |-> sent,
     inflight |-> inflight, request |-> request, log |-> log, body |-> body, result |-> result,
     tx_hash |-> tx_hash]
\* a request counts its own attempts: those completed and the one in flight
OwnCount(r) ==
    /\ r.inflight \in {0, 1}
    /\ r.sent = Len(r.log) + r.inflight
    /\ r.pc = "attempt" => RetryTake - r.strategy.remaining = r.calls - 1
    /\ r.pc = "backoff" => RetryTake - r.strategy.remaining = r.calls

C19_Step ==
    /\ OwnCount(Running') /\ OwnCount(parked')
    /\ \/ parked' = Running /\ Running' = parked
       \/ /\ parked' = parked
          /\ sent' # sent /\ pc # "done" =>
                /\ sent' = sent + 1
                /\ inflight = 0 /\ inflight' = 1
                /\ \/ pc = "idle"
                   \/ /\ pc = "backoff"
                      /\ Len(log) = sent
                      /\ RetryableFailure(Last(log))

C19_SequentialAttempts == [][C19_Step]_vars

C19_Witness ==
    /\ pc = "backoff" /\ sent = 3 /\ inflight = 0
    /\ parked.pc = "attempt" /\ parked.sent = 2 /\ parked.inflight = 1
    /\ op = "get_chain_stats" /\ parked.op = "get_contract_state"

(***************************************************************************)
(* C20: each gated read endpoint (balances under "balances", stats under   *)
(* "stats", block entries under "entries", validators under "trainers")    *)
(* returns a value only if the 2xx body parses as JSON, its error marker   *)
(* equals "ok", the named sub-field is present and the sub-field decodes   *)
(* into the target type; a marker other than "ok" gives AccountNotFound    *)
(* for the balance query and InvalidResponse for the others, and a missing *)
(* or undecodable sub-field gives InvalidResponse.                         *)
(***************************************************************************)
\* the sub-field a gated endpoint reads
SubField(o) ==
    CASE o = "get_account_balance" -> "balances"
      [] o = "get_chain_stats" -> "stats"
      [] o = "get_block_by_height" -> "entries"
      [] o = "get_validators" -> "trainers"

C20_GatedEndpoints ==
    (pc = "done" /\ op \in MarkerGated /\ body # NoBody) =>
        LET decodes == body.name = SubField(op) /\ body.value = "good"
        IN  /\ result.ok <=> (body.readable /\ body.json /\ body.error = "ok" /\ decodes)
            /\ result.ok => result.value = SubField(op)
            /\ (body.json /\ body.error # "ok") =>
                  result.kind = IF op = "get_account_balance" THEN "AccountNotFound"
                                ELSE "InvalidResponse"
            /\ (body.json /\ body.error = "ok" /\ ~decodes) => result.kind = "InvalidResponse"
            /\ (body.readable /\ ~body.json) => result.kind = "InvalidResponse"

C20_Witness ==
    /\ pc = "done" /\ op = "get_chain_stats"
    /\ body.json /\ body.error = "not_found" /\ body.name = "stats" /\ body.value = "good"
    /\ result.kind = "InvalidResponse"

(***************************************************************************)
(* C21  The faucet gives at most one transfer per client IP in any window  *)
(* of 86400 seconds: whatever the interleaving of the claim requests of    *)
(* one IP, concurrent ones included, no two transfers for that IP are sent *)
(* less than 86400 seconds apart.                                          *)
(***************************************************************************)
C21_OneTransferPerWindow ==
    \A i, j \in 1..Len(transfers) :
        i < j /\ transfers[i].ip = transfers[j].ip
            => transfers[j].at - transfers[i].at >= CLAIM_COOLDOWN_SECS

(***************************************************************************)
(* C25  The ip a claim is counted against is the first comma-separated     *)
(* entry of x-forwarded-for if that header is present, else                *)
(* cf-connecting-ip, else x-real-ip, else the connection IP handed over by *)
(* the worker; with none of them the claim ends with an error and neither  *)
(* a transfer nor a claim record is made.                                  *)
(***************************************************************************)
C25_Step ==
    \A r \in Slots :
        claim[r].pc = "idle" /\ claim'[r].pc # "idle" =>
            IF claim'[r].headers["x-forwarded-for"].some
            THEN claim'[r].ip = Trim(FirstEntry(claim'[r].headers["x-forwarded-for"].v))
            ELSE IF claim'[r].headers["cf-connecting-ip"].some
            THEN claim'[r].ip = claim'[r].headers["cf-connecting-ip"].v
            ELSE IF claim'[r].headers["x-real-ip"].some
            THEN claim'[r].ip = claim'[r].headers["x-real-ip"].v
            ELSE IF ClientIp(claim'[r].headers).some
            THEN claim'[r].ip = ClientIp(claim'[r].headers).v
            ELSE /\ claim'[r].pc = "done"
                 /\ claim'[r].result = "could not determine client IP"
                 /\ UNCHANGED <<transfers, faucet_claims>>

C25_IpPrecedence == [][C25_Step]_vars

\* a request with cf-connecting-ip "b" and x-real-ip "c" is counted against "b"
C25_Witness ==
    /\ claim[1].pc = "select"
    /\ claim[1].headers = Headers(None, Some(<<98>>), Some(<<99>>))
    /\ claim[1].ip = <<98>>

(***************************************************************************)
(* C27  A claim from an IP whose recorded claimed_at is less than 86400    *)
(* seconds before now is rejected with "can only claim once per day",      *)
(* sends no transfer and leaves the record as it is; a claim at least      *)
(* 86400 seconds after claimed_at, or from an IP with no record, goes on   *)
(* to the transfer, and after it there is exactly one faucet_claims row    *)
(* for the IP, holding the new time and address.                           *)
(***************************************************************************)
C27_Step ==
    \A r \in Slots :
        /\ claim[r].pc = "select" /\ claim'[r].pc # "select" =>
              IF /\ RowsOf(faucet_claims, claim[r].ip) # <<>>
                 /\ claim[r].now - RowsOf(faucet_claims, claim[r].ip)[1].claimed_at < CLAIM_COOLDOWN_SECS
              THEN /\ claim'[r].pc = "done"
                   /\ claim'[r].result = "can only claim once per day"
                   /\ UNCHANGED <<transfers, faucet_claims>>
              ELSE claim'[r].pc = "transfer"
        /\ claim[r].pc = "record" /\ claim'[r].pc # "record" =>
              RowsOf(faucet_claims', claim[r].ip) =
                  << [ip |-> claim[r].ip, address |-> claim[r].address, claimed_at |-> claim[r].now] >>

C27_CooldownAndRecord == [][C27_Step]_vars

(***************************************************************************)
(* C28  claim_testnet_ama reports success and writes or refreshes the      *)
(* claim record only if the node answered the faucet submission with a 2xx *)
(* status; a transfer that cannot be built or sent, or that the node       *)
(* rejects, leaves no claim record.                                        *)
(***************************************************************************)
C28_RecordOnlyAfter2xx ==
    \A r \in Slots :
        /\ claim[r].pc = "record" => is_success(claim[r].status)
        /\ claim[r].result = "success" => is_success(claim[r].status)

(***************************************************************************)
(* C22  Every read query terminates: each attempt completing or timing     *)
(* out, the retry state machine reaches success or the exhausted failure   *)
(* after a bounded number of attempts, the attempt number never going back *)
(* to an earlier one, and the query returns.                               *)
(***************************************************************************)
\* within a request the attempt number only grows, by one, up to the ceiling
C22_Step ==
    pc \in {"attempt", "backoff", "body"} =>
        /\ calls' \in {calls, calls + 1}
        /\ calls' <= RetryTake + 1
        /\ pc' = "done" /\ pc = "attempt" => result'.kind = "NetworkRetryExhausted" /\ calls = RetryTake + 1

C22_ReadTerminates ==
    /\ [][C22_Step]_vars
    /\ (pc \in {"attempt", "backoff"}) ~> (pc \in {"body", "done"})
    /\ (pc = "body") ~> (pc = "done")

\* a query that ended exhausted after its last attempt
C22_Witness ==
    /\ pc = "done"
    /\ op \in ReadOps
    /\ result = NetworkRetryExhausted(ReportedAttempts)
    /\ calls = RetryTake + 1
    /\ Len(log) = calls

(***************************************************************************)
(* C23  A hex argument is accepted exactly when, after at most one leading *)
(* "0x" is removed, the rest is a hex string of even length, and it then   *)
(* stands for the bytes of that rest; a value that still starts with "0x"  *)
(* after one prefix is removed is rejected with ValidationFailed.          *)
(***************************************************************************)
C23_HexOnePrefix ==
    tpc \in {"created", "finalized"} =>
        \A i \in 1..Len(req.args) :
            req.args[i].variant = "Hex" =>
                /\ ArgumentBytes(req.args[i]).ok <=> FormBytes(req.args[i]).ok
                /\ FormBytes(req.args[i]).ok => ArgumentBytes(req.args[i]).v = FormBytes(req.args[i]).v
                /\ ~FormBytes(req.args[i]).ok => unsigned.kind = "ValidationFailed"

(***************************************************************************)
(* C24  A JSON argument is resolved by trying the variants in the declared *)
(* order String, Number, Base58 {b58}, Hex {hex}, Utf8 {utf8} and taking   *)
(* the first that matches: a JSON string, numeric-looking or not, becomes  *)
(* String and never Number; an integer becomes Number; an object becomes   *)
(* the first variant in that order whose key it carries.                   *)
(***************************************************************************)
\* the variant of the first of the keys b58, hex, utf8 that satisfies Has
FirstKey(j, Has(_)) ==
    IF Has(j.b58) THEN "Base58" ELSE IF Has(j.hex) THEN "Hex" ELSE IF Has(j.utf8) THEN "Utf8" ELSE "none"

\* the statement as it stands: any integer is a Number, and a key counts
\* whatever is under it
C24_Original ==
    tpc = "created" /\ arguments # <<>> =>
        /\ arguments[1].type = "string" => req.args = <<ArgString(arguments[1].s)>>
        /\ arguments[1].type \in {"int", "big_integer"} =>
              Len(req.args) = 1 /\ req.args[1].variant = "Number"
        /\ arguments[1].type = "object" /\ FirstKey(arguments[1], LAMBDA v : v.type # "absent") # "none" =>
              /\ Len(req.args) = 1
              /\ req.args[1].variant = FirstKey(arguments[1], LAMBDA v : v.type # "absent")

\* amended: an integer of the i64 range is a Number, a key counts when a
\* string is under it, and every other value is refused
C24_FirstMatchInOrder ==
    tpc = "created" /\ arguments # <<>> =>
        /\ arguments[1].type = "string" => req.args = <<ArgString(arguments[1].s)>>
        /\ arguments[1].type = "int" => req.args = <<ArgNumber(arguments[1].n)>>
        /\ arguments[1].type = "object" /\ FirstKey(arguments[1], LAMBDA v : v.type = "string") # "none" =>
              /\ Len(req.args) = 1
              /\ req.args[1].variant = FirstKey(arguments[1], LAMBDA v : v.type = "string")
              /\ req.args[1].s = (CASE req.args[1].variant = "Base58" -> arguments[1].b58.s
                                    [] req.args[1].variant = "Hex" -> arguments[1].hex.s
                                    [] req.args[1].variant = "Utf8" -> arguments[1].utf8.s)
        /\ arguments[1].type \notin {"string", "int", "object"} => unsigned.kind = "invalid arguments"
        /\ arguments[1].type = "object" /\ FirstKey(arguments[1], LAMBDA v : v.type = "string") = "none" =>
              unsigned.kind = "invalid arguments"

\* an object carrying b58 and hex, both strings, read as Base58
C24_Witness ==
    /\ tpc = "created"
    /\ arguments = <<JObject(JString(<<50>>), JString(<<102, 102>>), Absent)>>
    /\ req.args = <<ArgBase58(<<50>>)>>
    /\ unsigned.ok

\* C26: in submit_signed_transaction validation comes before the network.
\* When the blob or the signature does not finalize, the call has returned
\* ValidationFailed with no request sent and no answer received; when they
\* finalize, one POST has been sent to <url>/api/tx/submit with Content-Type
\* text/plain and the Base58 text of the packed wire object as its body.
C26_ValidationBeforeIo ==
    op = "submit_signed_transaction" =>
        IF ~finalized.ok
        THEN /\ pc = "done"
             /\ result.kind = "ValidationFailed"
             /\ sent = 0
             /\ inflight = 0
             /\ log = <<>>
             /\ request = NoRequestSent
        ELSE /\ sent = 1
             /\ Len(log) <= 1
             /\ request.method = "POST"
             /\ request.url # "none"
             /\ request.path = "/api/tx/submit"
             /\ request.content_type = "text/plain"
             /\ request.body = Base58Encode(finalized.packed)
\* a transaction that finalized, was posted once and was accepted by the node
C26_Witness ==
    /\ op = "submit_signed_transaction"
    /\ pc = "done"
    /\ finalized.ok
    /\ sent = 1
    /\ Len(log) = 1
    /\ result.ok
    /\ result.tx_hash.some

\* C29: the tool submit_transaction sends the transaction to one node.  The
\* one request of a call goes to the testnet RPC URL (AMADEUS_TESTNET_RPC,
\* https://testnet.amadeus.bot when it is not set) if and only if the
\* request's network field is "testnet", and to the configured default RPC
\* URL when the field is absent or has any other value.
C29_OneNodeByNetwork ==
    op = "submit_signed_transaction" /\ finalized.ok =>
        /\ sent = 1
        /\ Len(log) <= 1
        /\ request.path = "/api/tx/submit"
        /\ IF signed.network = Some(Testnet)
           THEN request.url = IF testnet_rpc.set THEN testnet_rpc.v ELSE "https://testnet.amadeus.bot"
           ELSE request.url = BlockchainUrl
\* a testnet transaction sent with AMADEUS_TESTNET_RPC not set
C29_Witness ==
    /\ op = "submit_signed_transaction"
    /\ finalized.ok
    /\ signed.network = Some(Testnet)
    /\ ~testnet_rpc.set
    /\ pc = "done"
    /\ request.url = "https://testnet.amadeus.bot"

\* the kinds of BlockchainError, HttpRequest and HttpRequestWasm being the
\* transport error of the two builds
C30_Kind(r) == IF r.kind = "HttpRequestWasm" THEN "HttpRequest" ELSE r.kind
\* C30: the native client and the worker's client agree on the read path.
\* When a read query of the native client has returned, the worker's client
\* given the same answers of the node (it reads the first of them, and the
\* body when that one is a 2xx) returns Ok with the same value or an error of
\* the same kind.
C30_ReadPathEquivalent ==
    pc = "done" /\ op \in ReadOps =>
        /\ C30_Kind(WasmRead(op, log[1], body)) = C30_Kind(result)
        /\ WasmRead(op, log[1], body).value = result.value

====
